---- MODULE Spec2Model ----
(***************************************************************************)
(* Linen: a registry of RPG system modules (LinenPlugin / LinenFlax) with  *)
(* dependency ordering, and the prioritized event bus (EventSystem).       *)
(***************************************************************************)
EXTENDS Integers, Sequences, FiniteSets, TLC

(* The system types of a run; a type T is registered under the name its    *)
(* GetSystemName() returns, written with the same string here.             *)
Modules == {"A", "B", "C"}

(* The two registries of the repository that compute an order.             *)
Variants == {"LinenPlugin", "LinenFlax"}

VARIABLES
    variant,                \* which registry class the run exercises
    m_dependencies,         \* RPGSystem::m_dependencies of each system type
    m_registeredSystems,    \* name -> TRUE (owns a system) / FALSE (null unique_ptr)
    m_activeSystems,        \* keys of the active map
    m_typeToName,           \* keys of the type -> name map
    m_initializationOrder,  \* vector of names
    crashed,                \* the process ran into undefined behaviour and died
    lastCall,               \* the registry operation that ran last, with its result
    calls,                  \* lifecycle calls the last operation made, in order
    scenario,               \* the Register calls and the Unload calls of a run, in order
    m_mutex,                \* EventSystem::m_mutex: the thread that holds it, or NoThread
    m_handlers,             \* event type -> vector of handlers
    m_filteredHandlers,     \* event type -> filter -> vector of handlers
    m_eventQueue,           \* the priority queue, as the set of queued event ids
    events,                 \* every event object created so far, by id
    stack,                  \* per thread: the frames of the calls it is in, innermost last
    busCalls,               \* every ProcessEvents / PublishImmediate call so far, by id
    subscribedAs,           \* per handler: the arguments of the Subscribe call that made it
    publishedAs,            \* per event id: the arguments of the call that published it
    m_systemsMutex,         \* LinenPlugin::m_systemsMutex: the thread that holds it, or NoThread
    m_quests,               \* QuestSystem::m_quests: quest id -> state and experience reward
    m_experience,           \* CharacterProgressionSystem::m_experience
    questCall               \* the QuestSystem operation that ran last, with its result

regState == <<variant, m_dependencies, m_registeredSystems, m_activeSystems,
              m_typeToName, m_initializationOrder, lastCall, calls, scenario>>
regVars == <<regState, crashed>>

busVars == <<m_mutex, m_handlers, m_filteredHandlers, m_eventQueue, events,
             stack, busCalls, subscribedAs, publishedAs>>

questVars == <<m_quests, m_experience, questCall>>

vars == <<regVars, busVars, m_systemsMutex, questVars>>

NoThread == "none"

----------------------------------------------------------------------------
(* Iteration of unordered containers.                                      *)

Perms == {p \in [1..Cardinality(Modules) -> Modules] :
             \A i, j \in 1..Cardinality(Modules) : i # j => p[i] # p[j]}

\* The elements of S in the order an unordered container hands them out;
\* ord is one of the orders the hash table may have.
IterationOrder(S, ord) == SelectSeq(ord, LAMBDA n : n \in S)

\* Every order in which an unordered container may hand out the elements of S.
Orderings(S) == {IterationOrder(S, ord) : ord \in Perms}

Registered == DOMAIN m_registeredSystems

Call(f, n) == [f |-> f, sys |-> n]

\* A registers alone, B declares A, C declares B.
ChainDependencies ==
    [n \in Modules |-> IF n = "B" THEN {"A"} ELSE IF n = "C" THEN {"B"} ELSE {}]

\* scenario.reg: the systems Register was called with, in call order, as long
\* as Register is all that has been called on the registry since it was
\* constructed or torn down (Off after any other call).  scenario.unl: the
\* systems Unload was called with, in call order, from a state with every
\* system active on, with no other call in between (three calls at most).
\* Lookups count for neither.  Kept for runs with ChainDependencies only.
Off == <<"off">>
NoScenario == [reg |-> <<>>, unl |-> <<>>]

Observe(call) ==
    IF m_dependencies # ChainDependencies \/ call.op \in {"Get", "GetByName"}
    THEN scenario
    ELSE [reg |-> IF call.op = "Deinitialize" THEN <<>>
                  ELSE IF call.op = "Register" /\ scenario.reg # Off
                          /\ Len(scenario.reg) < Cardinality(Modules)
                  THEN Append(scenario.reg, call.name)
                  ELSE Off,
          unl |-> IF call.op # "Unload" THEN <<>>
                  ELSE IF scenario.unl # <<>> /\ Len(scenario.unl) < Cardinality(Modules)
                  THEN Append(scenario.unl, call.name)
                  ELSE IF m_activeSystems = Modules THEN <<call.name>>
                  ELSE <<>>]

----------------------------------------------------------------------------
(* Cycle detection and topological sort.                                   *)

RECURSIVE DetectCycle(_, _, _)
RECURSIVE DetectCycleDeps(_, _, _)

\* st = [visited, recursionStack, reg, ret, ub]; reg is m_registeredSystems,
\* which operator[] extends with a null entry for a name it does not hold.
DetectCycle(systemName, st, depOrd) ==
    IF systemName \in st.recursionStack THEN [st EXCEPT !.ret = TRUE]
    ELSE IF systemName \in st.visited THEN [st EXCEPT !.ret = FALSE]
    ELSE LET entered == [st EXCEPT !.visited = @ \cup {systemName},
                                   !.recursionStack = @ \cup {systemName}]
         IN  IF systemName \notin DOMAIN st.reg
             THEN [entered EXCEPT !.reg = [n \in DOMAIN st.reg \cup {systemName} |->
                                             IF n \in DOMAIN st.reg THEN st.reg[n] ELSE FALSE],
                                  !.ub = TRUE]
             ELSE IF ~st.reg[systemName]
             THEN [entered EXCEPT !.ub = TRUE]
             ELSE LET r == DetectCycleDeps(
                               IterationOrder(m_dependencies[systemName], depOrd),
                               entered, depOrd)
                  IN  IF r.ub \/ r.ret THEN r
                      ELSE [r EXCEPT !.recursionStack = @ \ {systemName}, !.ret = FALSE]

DetectCycleDeps(ds, st, depOrd) ==
    IF ds = <<>> THEN [st EXCEPT !.ret = FALSE]
    ELSE LET r == DetectCycle(Head(ds), st, depOrd)
         IN  IF r.ub \/ r.ret THEN r ELSE DetectCycleDeps(Tail(ds), r, depOrd)

RECURSIVE VisitSystem(_, _, _, _)
RECURSIVE VisitDeps(_, _, _, _)

\* vs = [visited, inProgress, order]
VisitSystem(systemName, vs, reg, depOrd) ==
    IF systemName \in vs.inProgress THEN vs
    ELSE IF systemName \in vs.visited THEN vs
    ELSE LET entered == [vs EXCEPT !.inProgress = @ \cup {systemName}]
             after == IF systemName \in DOMAIN reg
                      THEN VisitDeps(IterationOrder(m_dependencies[systemName], depOrd),
                                     entered, reg, depOrd)
                      ELSE entered
         IN  [after EXCEPT !.inProgress = @ \ {systemName},
                           !.visited = @ \cup {systemName},
                           !.order = Append(@, systemName)]

VisitDeps(ds, vs, reg, depOrd) ==
    IF ds = <<>> THEN vs
    ELSE VisitDeps(Tail(ds), VisitSystem(Head(ds), vs, reg, depOrd), reg, depOrd)

\* Both registries handing the visited set of the cycle detection on to the
\* traversal.
TraversalVisitedKept(v, detected) == detected

\* LinenFlax.cpp:95 clears visited between the two passes; LinenPlugin.cpp
\* hands the set the cycle detection filled to the traversal.
TraversalVisited(v, detected) == IF v = "LinenFlax" THEN {} ELSE detected

\* Result [order, reg, ub]: the order is cleared first; a cycle returns with
\* it cleared; otherwise the traversal fills it.
CalculateInitializationOrder(reg, mapOrd, depOrd) ==
    LET names == IterationOrder(DOMAIN reg, mapOrd)
        det == DetectCycleDeps(names,
                   [visited |-> {}, recursionStack |-> {}, reg |-> reg,
                    ret |-> FALSE, ub |-> FALSE], depOrd)
    IN  IF det.ub THEN [order |-> <<>>, reg |-> det.reg, ub |-> TRUE]
        ELSE IF det.ret THEN [order |-> <<>>, reg |-> reg, ub |-> FALSE]
        ELSE [order |-> VisitDeps(names,
                            [visited |-> TraversalVisited(variant, det.visited),
                             inProgress |-> {}, order |-> <<>>], reg, depOrd).order,
              reg |-> reg, ub |-> FALSE]

----------------------------------------------------------------------------
(* Registry operations.                                                    *)

\* A Register that stores the system whether or not the name is taken.
RegisterSystemOverwrites(T) ==
    /\ ~crashed
    /\ m_systemsMutex = NoThread
    /\ UNCHANGED <<busVars, m_systemsMutex>>
    /\ \E ord \in Perms :
          LET reg1 == [n \in Registered \cup {T} |->
                          IF n = T THEN TRUE ELSE m_registeredSystems[n]]
              calc == CalculateInitializationOrder(reg1, ord, ord)
          IN  /\ m_typeToName' = m_typeToName \cup {T}
              /\ m_registeredSystems' = calc.reg
              /\ m_initializationOrder' = calc.order
              /\ crashed' = calc.ub
              /\ lastCall' = [op |-> "Register", name |-> T, ret |-> ~calc.ub]
              /\ calls' = <<>>
    /\ UNCHANGED <<variant, m_dependencies, m_activeSystems>>
    /\ scenario' = Observe(lastCall')
    /\ UNCHANGED questVars

\* A Register that also initializes and activates the system it stores.
RegisterSystemAndInitialize(T) ==
    /\ ~crashed
    /\ m_systemsMutex = NoThread
    /\ UNCHANGED <<busVars, m_systemsMutex>>
    /\ IF T \in Registered
       THEN /\ lastCall' = [op |-> "Register", name |-> T, ret |-> FALSE]
            /\ calls' = <<>>
            /\ UNCHANGED <<m_registeredSystems, m_typeToName, m_initializationOrder,
                           crashed, m_activeSystems>>
       ELSE \E ord \in Perms :
              LET reg1 == [n \in Registered \cup {T} |->
                              IF n = T THEN TRUE ELSE m_registeredSystems[n]]
                  calc == CalculateInitializationOrder(reg1, ord, ord)
              IN  /\ m_typeToName' = m_typeToName \cup {T}
                  /\ m_registeredSystems' = calc.reg
                  /\ m_initializationOrder' = calc.order
                  /\ crashed' = calc.ub
                  /\ lastCall' = [op |-> "Register", name |-> T, ret |-> ~calc.ub]
                  /\ calls' = <<Call("Initialize", T)>>
                  /\ m_activeSystems' = m_activeSystems \cup {T}
    /\ UNCHANGED <<variant, m_dependencies>>
    /\ scenario' = Observe(lastCall')
    /\ UNCHANGED questVars

RegisterSystem(T) ==
    /\ ~crashed
    /\ m_systemsMutex = NoThread
    /\ UNCHANGED <<busVars, m_systemsMutex>>
    /\ IF T \in Registered
       THEN /\ lastCall' = [op |-> "Register", name |-> T, ret |-> FALSE]
            /\ calls' = <<>>
            /\ UNCHANGED <<m_registeredSystems, m_typeToName, m_initializationOrder, crashed>>
       ELSE \E ord \in Perms :
              LET reg1 == [n \in Registered \cup {T} |->
                              IF n = T THEN TRUE ELSE m_registeredSystems[n]]
                  calc == CalculateInitializationOrder(reg1, ord, ord)
              IN  /\ m_typeToName' = m_typeToName \cup {T}
                  /\ m_registeredSystems' = calc.reg
                  /\ m_initializationOrder' = calc.order
                  /\ crashed' = calc.ub
                  /\ lastCall' = [op |-> "Register", name |-> T, ret |-> ~calc.ub]
                  /\ calls' = <<>>
    /\ UNCHANGED <<variant, m_dependencies, m_activeSystems>>
    /\ scenario' = Observe(lastCall')
    /\ UNCHANGED questVars

RECURSIVE LoadDependencies(_, _)
\* The loop over GetDependencies(): ls = [active, calls, missing]
LoadDependencies(ds, ls) ==
    IF ds = <<>> THEN ls
    ELSE LET dependency == Head(ds)
         IN  IF dependency \in ls.active THEN LoadDependencies(Tail(ds), ls)
             ELSE IF dependency \in Registered
             THEN LoadDependencies(Tail(ds),
                      [ls EXCEPT !.active = @ \cup {dependency},
                                 !.calls = Append(@, Call("Initialize", dependency))])
             ELSE [ls EXCEPT !.missing = TRUE]

\* A Load without the "already loaded" check.
LoadSystemAgain(T) ==
    /\ ~crashed
    /\ m_systemsMutex = NoThread
    /\ UNCHANGED <<busVars, m_systemsMutex>>
    /\ IF T \notin m_typeToName \/ T \notin Registered
       THEN /\ lastCall' = [op |-> "Load", name |-> T, ret |-> FALSE]
            /\ calls' = <<>>
            /\ UNCHANGED m_activeSystems
       ELSE \E ds \in Orderings(m_dependencies[T]) :
              LET ls == LoadDependencies(ds,
                            [active |-> m_activeSystems, calls |-> <<>>, missing |-> FALSE])
              IN  IF ls.missing
                  THEN /\ m_activeSystems' = ls.active
                       /\ calls' = ls.calls
                       /\ lastCall' = [op |-> "Load", name |-> T, ret |-> FALSE]
                  ELSE /\ m_activeSystems' = ls.active \cup {T}
                       /\ calls' = Append(ls.calls, Call("Initialize", T))
                       /\ lastCall' = [op |-> "Load", name |-> T, ret |-> TRUE]
    /\ UNCHANGED <<variant, m_dependencies, m_registeredSystems, m_typeToName,
                   m_initializationOrder, crashed>>
    /\ scenario' = Observe(lastCall')
    /\ UNCHANGED questVars

LoadSystem(T) ==
    /\ ~crashed
    /\ m_systemsMutex = NoThread
    /\ UNCHANGED <<busVars, m_systemsMutex>>
    /\ IF T \notin m_typeToName
       THEN /\ lastCall' = [op |-> "Load", name |-> T, ret |-> FALSE]
            /\ calls' = <<>>
            /\ UNCHANGED m_activeSystems
       ELSE IF T \in m_activeSystems
       THEN /\ lastCall' = [op |-> "Load", name |-> T, ret |-> TRUE]
            /\ calls' = <<>>
            /\ UNCHANGED m_activeSystems
       ELSE IF T \notin Registered
       THEN /\ lastCall' = [op |-> "Load", name |-> T, ret |-> FALSE]
            /\ calls' = <<>>
            /\ UNCHANGED m_activeSystems
       ELSE \E ds \in Orderings(m_dependencies[T]) :
              LET ls == LoadDependencies(ds,
                            [active |-> m_activeSystems, calls |-> <<>>, missing |-> FALSE])
              IN  IF ls.missing
                  THEN /\ m_activeSystems' = ls.active
                       /\ calls' = ls.calls
                       /\ lastCall' = [op |-> "Load", name |-> T, ret |-> FALSE]
                  ELSE /\ m_activeSystems' = ls.active \cup {T}
                       /\ calls' = Append(ls.calls, Call("Initialize", T))
                       /\ lastCall' = [op |-> "Load", name |-> T, ret |-> TRUE]
    /\ UNCHANGED <<variant, m_dependencies, m_registeredSystems, m_typeToName,
                   m_initializationOrder, crashed>>
    /\ scenario' = Observe(lastCall')
    /\ UNCHANGED questVars

\* A dependent check that looks at every registered system, active or not.
HasRegisteredDependent(systemName) ==
    \E a \in Registered : systemName \in m_dependencies[a]

\* An UnloadSystem that finds no dependent to refuse for.
NoDependentCheck(systemName) == FALSE

\* The loop over m_activeSystems looking for a system that lists systemName.
HasActiveDependent(systemName) ==
    \E a \in m_activeSystems : systemName \in m_dependencies[a]

\* The registry names of the two systems with a state of their own:
\* CharacterProgressionSystem declares no dependency, QuestSystem declares
\* CharacterProgressionSystem.
CharacterProgressionSystem == "A"
QuestSystem == "B"

\* QuestSystem::Shutdown clears m_quests: the quests after a registry
\* operation that has made the lifecycle calls cs.
ShutdownQuests(cs) ==
    IF \E i \in 1..Len(cs) : cs[i] = Call("Shutdown", QuestSystem) THEN <<>> ELSE m_quests

\* An Unload that takes the system it shuts down out of the order as well.
UnloadSystemFromOrder(T) ==
    /\ ~crashed
    /\ m_systemsMutex = NoThread
    /\ UNCHANGED <<busVars, m_systemsMutex>>
    /\ IF T \notin m_typeToName
       THEN /\ lastCall' = [op |-> "Unload", name |-> T, ret |-> FALSE]
            /\ calls' = <<>>
            /\ UNCHANGED <<m_activeSystems, m_initializationOrder>>
       ELSE IF T \notin m_activeSystems
       THEN /\ lastCall' = [op |-> "Unload", name |-> T, ret |-> TRUE]
            /\ calls' = <<>>
            /\ UNCHANGED <<m_activeSystems, m_initializationOrder>>
       ELSE IF HasActiveDependent(T)
       THEN /\ lastCall' = [op |-> "Unload", name |-> T, ret |-> FALSE]
            /\ calls' = <<>>
            /\ UNCHANGED <<m_activeSystems, m_initializationOrder>>
       ELSE /\ calls' = <<Call("Shutdown", T)>>
            /\ m_activeSystems' = m_activeSystems \ {T}
            /\ m_initializationOrder' = SelectSeq(m_initializationOrder, LAMBDA n : n # T)
            /\ lastCall' = [op |-> "Unload", name |-> T, ret |-> TRUE]
    /\ UNCHANGED <<variant, m_dependencies, m_registeredSystems, m_typeToName, crashed>>
    /\ scenario' = Observe(lastCall')
    /\ m_quests' = ShutdownQuests(calls')
    /\ UNCHANGED <<m_experience, questCall>>

UnloadSystem(T) ==
    /\ ~crashed
    /\ m_systemsMutex = NoThread
    /\ UNCHANGED <<busVars, m_systemsMutex>>
    /\ IF T \notin m_typeToName
       THEN /\ lastCall' = [op |-> "Unload", name |-> T, ret |-> FALSE]
            /\ calls' = <<>>
            /\ UNCHANGED m_activeSystems
       ELSE IF T \notin m_activeSystems
       THEN /\ lastCall' = [op |-> "Unload", name |-> T, ret |-> TRUE]
            /\ calls' = <<>>
            /\ UNCHANGED m_activeSystems
       ELSE IF HasActiveDependent(T)
       THEN /\ lastCall' = [op |-> "Unload", name |-> T, ret |-> FALSE]
            /\ calls' = <<>>
            /\ UNCHANGED m_activeSystems
       ELSE /\ calls' = <<Call("Shutdown", T)>>
            /\ m_activeSystems' = m_activeSystems \ {T}
            /\ lastCall' = [op |-> "Unload", name |-> T, ret |-> TRUE]
    /\ UNCHANGED <<variant, m_dependencies, m_registeredSystems, m_typeToName,
                   m_initializationOrder, crashed>>
    /\ scenario' = Observe(lastCall')
    /\ m_quests' = ShutdownQuests(calls')
    /\ UNCHANGED <<m_experience, questCall>>

\* The names of order that are active, as calls of f, in the order given.
CallsOnActive(f, order) ==
    [i \in 1..Len(SelectSeq(order, LAMBDA n : n \in m_activeSystems)) |->
        Call(f, SelectSeq(order, LAMBDA n : n \in m_activeSystems)[i])]

Reverse(s) == [i \in 1..Len(s) |-> s[Len(s) + 1 - i]]

\* What a read of m_initializationOrder and m_activeSystems made without
\* m_systemsMutex leaves of the process: made while a thread is inside a
\* registry operation that holds the mutex and writes them, it is a data race.
UnlockedReadOutcomes == IF m_systemsMutex = NoThread THEN {FALSE} ELSE {FALSE, TRUE}

\* LinenPlugin::Update: Update on the active systems of the order, then the
\* bus is drained once.
Update ==
    /\ ~crashed
    /\ UNCHANGED <<busVars, m_systemsMutex>>
    /\ variant = "LinenPlugin"
    /\ calls' = Append(CallsOnActive("Update", m_initializationOrder),
                       Call("ProcessEvents", "EventSystem"))
    /\ lastCall' = [op |-> "Tick", name |-> "", ret |-> TRUE]
    /\ crashed' \in UnlockedReadOutcomes
    /\ UNCHANGED <<variant, m_dependencies, m_registeredSystems, m_activeSystems,
                   m_typeToName, m_initializationOrder>>
    /\ scenario' = Observe(lastCall')
    /\ UNCHANGED questVars

\* LinenPlugin::Deinitialize
Deinitialize ==
    /\ ~crashed
    /\ m_systemsMutex = NoThread
    /\ UNCHANGED <<busVars, m_systemsMutex>>
    /\ variant = "LinenPlugin"
    /\ calls' = CallsOnActive("Shutdown", Reverse(m_initializationOrder))
    /\ m_activeSystems' = {}
    /\ m_registeredSystems' = <<>>
    /\ m_typeToName' = {}
    /\ m_initializationOrder' = <<>>
    /\ lastCall' = [op |-> "Deinitialize", name |-> "", ret |-> TRUE]
    /\ UNCHANGED <<variant, m_dependencies, crashed>>
    /\ scenario' = Observe(lastCall')
    /\ m_quests' = ShutdownQuests(calls')
    /\ UNCHANGED <<m_experience, questCall>>

----------------------------------------------------------------------------
(* The event bus (EventSystem).                                            *)

Threads == {"t1", "t2"}

EventTypes == {"E1", "E2"}
\* The filter argument; "" is the default, no filter.
Filters == {"", "f", "g"}

\* enum class EventPriority
Low == 0
Normal == 1
High == 2
Critical == 3
Priorities == {Low, Normal, High, Critical}

\* The handler objects Subscribe can create (one per Subscribe call).
Handlers == {"h1", "h2"}

\* Bounds of a run.
MaxEvents == 2
MaxCalls == 2

NoArg == [type |-> "", filter |-> "", priority |-> Normal, own |-> Normal, object |-> Normal]

\* subscribedAs of a handler no Subscribe call has made yet.
NotSubscribed == [type |-> "", filter |-> ""]

\* A stack frame.  Of a delivery: i is the position in the batch, bucket and j
\* the loop it is in and the position of that loop's iterator, end the end
\* the range-for took from the bucket when it entered the loop.
Frame(op, call, i, bucket, j, h, pc, arg) ==
    [op |-> op, call |-> call, i |-> i, bucket |-> bucket, j |-> j, end |-> 0,
     h |-> h, pc |-> pc, arg |-> arg, pending |-> <<>>]

Top(t) == stack[t][Len(stack[t])]
Pop(t) == SubSeq(stack[t], 1, Len(stack[t]) - 1)
Idle(t) == stack[t] = <<>>
InHandler(t) == ~Idle(t) /\ Top(t).op = "Handle"
Delivering(t) == ~Idle(t) /\ Top(t).op \in {"ProcessEvents", "PublishImmediate"}

Subscribed == UNION {{m_handlers[ty][i] : i \in 1..Len(m_handlers[ty])} : ty \in EventTypes}
         \cup UNION {{m_filteredHandlers[ty][f][i] : i \in 1..Len(m_filteredHandlers[ty][f])} :
                        ty \in EventTypes, f \in Filters \ {""}}

\* Comparison the other way round: the lowest priority comes out first.
QueuedEventGreater(a, b) == events[a].priority > events[b].priority

\* QueuedEvent::operator< is true of (a, b) when a's priority is lower.
QueuedEventLess(a, b) == events[a].priority < events[b].priority

\* What std::priority_queue::top() may return: an element no other element
\* is greater than; which one among equals is not specified.
QueueTop(q) == {e \in q : \A o \in q : ~QueuedEventLess(e, o)}

RECURSIVE DrainOrders(_)
\* The batches the loop "push_back(top()); pop()" can build from the queue q.
DrainOrders(q) ==
    IF q = {} THEN {<<>>}
    ELSE UNION {{<<e>> \o rest : rest \in DrainOrders(q \ {e})} : e \in QueueTop(q)}

\* An event object that keeps the default priority whatever the argument.
NewEventOfDefaultPriority(type, filter, priority, queued, origin) ==
    [type |-> type, filter |-> filter, priority |-> Normal, queued |-> queued,
     origin |-> origin, at |-> Len(busCalls)]

\* The event object a Publish or PublishImmediate call creates.
NewEvent(type, filter, priority, queued, origin) ==
    [type |-> type, filter |-> filter, priority |-> priority, queued |-> queued,
     origin |-> origin, at |-> Len(busCalls)]

\* Some thread is inside the range-for loop over the bucket of this type and
\* filter ("" for the global bucket): the loop has made a Handle call and the
\* delivery has not moved on to the next event.
Iterated(type, filter) ==
    \E t \in Threads : \E i \in 1..Len(stack[t]) :
        LET f == stack[t][i]
        IN  /\ f.op \in {"ProcessEvents", "PublishImmediate"}
            /\ f.i <= Len(busCalls[f.call].batch)
            /\ f.j >= 2
            /\ events[busCalls[f.call].batch[f.i]].type = type
            /\ IF f.bucket = "global" THEN filter = ""
               ELSE filter = events[busCalls[f.call].batch[f.i]].filter

\* What push_back on a bucket leaves of the process.  On a bucket no loop is
\* in, nothing but the new element.  On a bucket a loop of ProcessEvents is
\* in (that loop runs without m_mutex) the vector is written while it is
\* read: when the vector had room the loop goes on to the end it took at its
\* start, when it had to reallocate the loop's iterators dangle.
PushBackOutcomes(type, filter) == IF Iterated(type, filter) THEN {FALSE, TRUE} ELSE {FALSE}

\* Subscribe as the sentence "global bucket, and additionally the
\* type+filter bucket" reads: a filtered handler goes into both.
SubscribeInBothBuckets(t, h, type, filter) ==
    /\ ~crashed
    /\ Idle(t)
    /\ m_mutex = NoThread
    /\ h \notin Subscribed
    /\ m_handlers' = [m_handlers EXCEPT ![type] = Append(@, h)]
    /\ IF filter = ""
       THEN UNCHANGED m_filteredHandlers
       ELSE m_filteredHandlers' = [m_filteredHandlers EXCEPT ![type][filter] = Append(@, h)]
    /\ crashed' \in PushBackOutcomes(type, filter)
    /\ UNCHANGED <<regState, m_systemsMutex, questVars>>
    /\ subscribedAs' = [subscribedAs EXCEPT ![h] = [type |-> type, filter |-> filter]]
    /\ UNCHANGED publishedAs
    /\ UNCHANGED <<m_mutex, m_eventQueue, events, stack, busCalls>>

\* Subscribe<T>(handler, filter)
Subscribe(t, h, type, filter) ==
    /\ ~crashed
    /\ Idle(t)
    /\ m_mutex = NoThread
    /\ h \notin Subscribed
    /\ IF filter = ""
       THEN /\ m_handlers' = [m_handlers EXCEPT ![type] = Append(@, h)]
            /\ UNCHANGED m_filteredHandlers
       ELSE /\ m_filteredHandlers' = [m_filteredHandlers EXCEPT ![type][filter] = Append(@, h)]
            /\ UNCHANGED m_handlers
    /\ crashed' \in PushBackOutcomes(type, filter)
    /\ UNCHANGED <<regState, m_systemsMutex, questVars>>
    /\ subscribedAs' = [subscribedAs EXCEPT ![h] = [type |-> type, filter |-> filter]]
    /\ UNCHANGED publishedAs
    /\ UNCHANGED <<m_mutex, m_eventQueue, events, stack, busCalls>>

\* A SetPriority that leaves the event's priority as it is.
SetPriorityIgnored(m_priority, priority) == m_priority

\* Event::SetPriority: the event's m_priority after the call.
SetPriority(m_priority, priority) == priority

\* Publish<T>(event, filter, priority), called from outside any handler, with
\* an event object whose m_priority the publisher has set to own.  The event
\* is passed by const reference: make_shared copies it, SetPriority is called
\* on the copy, and the publisher's object stays as it is.
PublishObject(t, type, filter, priority, own) ==
    /\ ~crashed
    /\ Idle(t)
    /\ m_mutex = NoThread
    /\ Len(events) < MaxEvents
    /\ events' = Append(events, NewEvent(type, filter, SetPriority(own, priority), TRUE, 0))
    /\ m_eventQueue' = m_eventQueue \cup {Len(events) + 1}
    /\ UNCHANGED <<regVars, m_systemsMutex, questVars>>
    /\ publishedAs' = Append(publishedAs, [type |-> type, filter |-> filter, priority |-> priority,
                                            own |-> own, object |-> own])
    /\ UNCHANGED subscribedAs
    /\ UNCHANGED <<m_mutex, m_handlers, m_filteredHandlers, stack, busCalls>>

\* Publish with an event object as its constructor made it (m_priority Normal).
Publish(t, type, filter, priority) == PublishObject(t, type, filter, priority, Normal)

NewCall(op, t, batch) ==
    [op |-> op, thread |-> t, batch |-> batch, trace |-> <<>>, status |-> "running",
     known |-> Subscribed]

\* PublishImmediate<T>(event, filter): takes the lock_guard and starts the
\* two handler loops; the lock is held until the function is left.
PublishImmediate(t, type, filter) ==
    /\ ~crashed
    /\ Idle(t)
    /\ m_mutex = NoThread
    /\ Len(events) < MaxEvents
    /\ Len(busCalls) < MaxCalls
    /\ m_mutex' = t
    /\ events' = Append(events, NewEvent(type, filter, Normal, FALSE, 0))
    /\ busCalls' = Append(busCalls, NewCall("PublishImmediate", t, <<Len(events) + 1>>))
    /\ stack' = [stack EXCEPT ![t] =
                   <<Frame("PublishImmediate", Len(busCalls) + 1, 1, "global", 1, "", "", NoArg)>>]
    /\ UNCHANGED <<regVars, m_systemsMutex, questVars>>
    /\ publishedAs' = Append(publishedAs, [type |-> type, filter |-> filter, priority |-> Normal,
                                            own |-> Normal, object |-> Normal])
    /\ UNCHANGED subscribedAs
    /\ UNCHANGED <<m_handlers, m_filteredHandlers, m_eventQueue>>

\* A ProcessEvents that, finding nothing pending, delivers the latest event
\* once more.
ProcessEventsRedelivers(t) ==
    /\ ~crashed
    /\ Idle(t)
    /\ m_mutex = NoThread
    /\ Len(busCalls) < MaxCalls
    /\ \E batch \in (IF m_eventQueue = {} /\ events # <<>>
                     THEN {<<Len(events)>>} ELSE DrainOrders(m_eventQueue)) :
          busCalls' = Append(busCalls, NewCall("ProcessEvents", t, batch))
    /\ m_eventQueue' = {}
    /\ stack' = [stack EXCEPT ![t] =
                   <<Frame("ProcessEvents", Len(busCalls) + 1, 1, "global", 1, "", "", NoArg)>>]
    /\ UNCHANGED <<regVars, m_systemsMutex, questVars>>
    /\ UNCHANGED <<subscribedAs, publishedAs>>
    /\ UNCHANGED <<m_mutex, m_handlers, m_filteredHandlers, events>>

\* ProcessEvents(), the block under the lock_guard: the whole queue is moved
\* to processingBatch and the lock is released.
ProcessEvents(t) ==
    /\ ~crashed
    /\ Idle(t)
    /\ m_mutex = NoThread
    /\ Len(busCalls) < MaxCalls
    /\ \E batch \in DrainOrders(m_eventQueue) :
          busCalls' = Append(busCalls, NewCall("ProcessEvents", t, batch))
    /\ m_eventQueue' = {}
    /\ stack' = [stack EXCEPT ![t] =
                   <<Frame("ProcessEvents", Len(busCalls) + 1, 1, "global", 1, "", "", NoArg)>>]
    /\ UNCHANGED <<regVars, m_systemsMutex, questVars>>
    /\ UNCHANGED <<subscribedAs, publishedAs>>
    /\ UNCHANGED <<m_mutex, m_handlers, m_filteredHandlers, events>>

\* The event the delivering frame f is at.
CurrentEvent(f) == busCalls[f.call].batch[f.i]

\* The two loops the other way round: the type+filter bucket first, the
\* global bucket after it.
FilteredBucketFirst(f) ==
    LET e == events[CurrentEvent(f)]
        first == IF e.filter # "" THEN m_filteredHandlers[e.type][e.filter] ELSE <<>>
        second == m_handlers[e.type]
        firstEnd == IF f.bucket = "global" /\ f.j = 1 THEN Len(first) ELSE f.end
        js == IF f.bucket = "global" THEN 1 ELSE f.j
        secondEnd == IF f.bucket = "global" THEN Len(second) ELSE f.end
    IN  IF f.bucket = "global" /\ f.j <= firstEnd
        THEN [found |-> TRUE, h |-> first[f.j], bucket |-> "global", j |-> f.j + 1,
              end |-> firstEnd]
        ELSE IF js <= secondEnd
        THEN [found |-> TRUE, h |-> second[js], bucket |-> "filtered", j |-> js + 1,
              end |-> secondEnd]
        ELSE [found |-> FALSE, h |-> "", bucket |-> "filtered", j |-> js, end |-> secondEnd]

\* Handler loops that take the bucket of filter "f" for every event, whatever
\* filter it was published with.
AnyFilterBucket(f) ==
    LET e == events[CurrentEvent(f)]
        global == m_handlers[e.type]
        filtered == m_filteredHandlers[e.type]["f"]
        globalEnd == IF f.bucket = "global" /\ f.j = 1 THEN Len(global) ELSE f.end
        jf == IF f.bucket = "global" THEN 1 ELSE f.j
        filteredEnd == IF f.bucket = "global" THEN Len(filtered) ELSE f.end
    IN  IF f.bucket = "global" /\ f.j <= globalEnd
        THEN [found |-> TRUE, h |-> global[f.j], bucket |-> "global", j |-> f.j + 1,
              end |-> globalEnd]
        ELSE IF jf <= filteredEnd
        THEN [found |-> TRUE, h |-> filtered[jf], bucket |-> "filtered", j |-> jf + 1,
              end |-> filteredEnd]
        ELSE [found |-> FALSE, h |-> "", bucket |-> "filtered", j |-> jf, end |-> filteredEnd]

\* The next handler->Handle call of the two range-for loops, from the frame's
\* position: the loop over m_handlers[type], then, for an event with a
\* filter, the loop over m_filteredHandlers[type][filter].  A range-for takes
\* begin() and end() of its bucket once, when the loop is entered.
NextInvocation(f) ==
    LET e == events[CurrentEvent(f)]
        global == m_handlers[e.type]
        filtered == IF e.filter # "" THEN m_filteredHandlers[e.type][e.filter] ELSE <<>>
        globalEnd == IF f.bucket = "global" /\ f.j = 1 THEN Len(global) ELSE f.end
        jf == IF f.bucket = "global" THEN 1 ELSE f.j
        filteredEnd == IF f.bucket = "global" THEN Len(filtered) ELSE f.end
    IN  IF f.bucket = "global" /\ f.j <= globalEnd
        THEN [found |-> TRUE, h |-> global[f.j], bucket |-> "global", j |-> f.j + 1,
              end |-> globalEnd]
        ELSE IF jf <= filteredEnd
        THEN [found |-> TRUE, h |-> filtered[jf], bucket |-> "filtered", j |-> jf + 1,
              end |-> filteredEnd]
        ELSE [found |-> FALSE, h |-> "", bucket |-> "filtered", j |-> jf, end |-> filteredEnd]

Traced(k, ev, h) ==
    [busCalls EXCEPT ![k].trace = Append(@, [ev |-> ev, h |-> h])]

\* handler->Handle(eventPtr.get())
InvokeHandler(t) ==
    /\ ~crashed
    /\ Delivering(t)
    /\ Top(t).i <= Len(busCalls[Top(t).call].batch)
    /\ LET f == Top(t)
           n == NextInvocation(f)
       IN  /\ n.found
           /\ stack' = [stack EXCEPT ![t] =
                 Append(Append(Pop(t), [f EXCEPT !.bucket = n.bucket, !.j = n.j, !.end = n.end]),
                        Frame("Handle", f.call, CurrentEvent(f), "", 0, n.h, "body", NoArg))]
           /\ busCalls' = Traced(f.call, CurrentEvent(f), n.h)
    /\ UNCHANGED <<regVars, m_systemsMutex, questVars>>
    /\ UNCHANGED <<subscribedAs, publishedAs>>
    /\ UNCHANGED <<m_mutex, m_handlers, m_filteredHandlers, m_eventQueue, events>>

\* A drain that goes back to the queue after each event and takes what has
\* been queued meanwhile into the batch it is delivering.
FinishEventAndDrainAgain(t) ==
    /\ ~crashed
    /\ Delivering(t)
    /\ Top(t).i <= Len(busCalls[Top(t).call].batch)
    /\ LET f == Top(t)
       IN  /\ ~NextInvocation(f).found
           /\ stack' = [stack EXCEPT ![t] =
                 Append(Pop(t), [f EXCEPT !.i = f.i + 1, !.bucket = "global", !.j = 1, !.end = 0])]
           /\ \E more \in DrainOrders(IF f.op = "ProcessEvents" THEN m_eventQueue ELSE {}) :
                 busCalls' = [Traced(f.call, CurrentEvent(f), "done") EXCEPT
                                 ![f.call].batch = @ \o more]
           /\ m_eventQueue' = IF f.op = "ProcessEvents" THEN {} ELSE m_eventQueue
    /\ UNCHANGED <<regVars, m_systemsMutex, questVars>>
    /\ UNCHANGED <<subscribedAs, publishedAs>>
    /\ UNCHANGED <<m_mutex, m_handlers, m_filteredHandlers, events>>

\* Both loops are through for the current event: on to the next of the batch.
FinishEvent(t) ==
    /\ ~crashed
    /\ Delivering(t)
    /\ Top(t).i <= Len(busCalls[Top(t).call].batch)
    /\ LET f == Top(t)
       IN  /\ ~NextInvocation(f).found
           /\ stack' = [stack EXCEPT ![t] =
                 Append(Pop(t), [f EXCEPT !.i = f.i + 1, !.bucket = "global", !.j = 1, !.end = 0])]
           /\ busCalls' = Traced(f.call, CurrentEvent(f), "done")
    /\ UNCHANGED <<regVars, m_systemsMutex, questVars>>
    /\ UNCHANGED <<subscribedAs, publishedAs>>
    /\ UNCHANGED <<m_mutex, m_handlers, m_filteredHandlers, m_eventQueue, events>>

\* A delivery that returns to its caller wherever its loops are.
ReturnBeforeLoopsEnd(t) ==
    /\ ~crashed
    /\ Delivering(t)
    /\ stack' = [stack EXCEPT ![t] = Pop(t)]
    /\ busCalls' = [busCalls EXCEPT ![Top(t).call].status = "returned"]
    /\ m_mutex' = IF Top(t).op = "PublishImmediate" THEN NoThread ELSE m_mutex
    /\ UNCHANGED <<regVars, m_systemsMutex, questVars>>
    /\ UNCHANGED <<subscribedAs, publishedAs>>
    /\ UNCHANGED <<m_handlers, m_filteredHandlers, m_eventQueue, events>>

\* ProcessEvents or PublishImmediate returns; PublishImmediate's lock_guard
\* releases the mutex here.
ReturnFromDelivery(t) ==
    /\ ~crashed
    /\ Delivering(t)
    /\ Top(t).i > Len(busCalls[Top(t).call].batch)
    /\ stack' = [stack EXCEPT ![t] = Pop(t)]
    /\ busCalls' = [busCalls EXCEPT ![Top(t).call].status = "returned"]
    /\ m_mutex' = IF Top(t).op = "PublishImmediate" THEN NoThread ELSE m_mutex
    /\ UNCHANGED <<regVars, m_systemsMutex, questVars>>
    /\ UNCHANGED <<subscribedAs, publishedAs>>
    /\ UNCHANGED <<m_handlers, m_filteredHandlers, m_eventQueue, events>>

\* The handler's function returns.
HandlerReturn(t) ==
    /\ ~crashed
    /\ InHandler(t)
    /\ Top(t).pc = "body"
    /\ stack' = [stack EXCEPT ![t] = Pop(t)]
    /\ UNCHANGED <<regVars, m_systemsMutex, questVars>>
    /\ UNCHANGED <<subscribedAs, publishedAs>>
    /\ UNCHANGED <<m_mutex, m_handlers, m_filteredHandlers, m_eventQueue, events, busCalls>>

\* The handler's function throws.  Neither loop has a try block, so the
\* exception leaves ProcessEvents / PublishImmediate: the batch is destroyed
\* and a lock_guard on the way is released.
HandlerThrow(t) ==
    /\ ~crashed
    /\ InHandler(t)
    /\ Top(t).pc = "body"
    /\ stack' = [stack EXCEPT ![t] = <<>>]
    /\ busCalls' = [busCalls EXCEPT ![Top(t).call].status = "threw"]
    /\ m_mutex' = IF m_mutex = t THEN NoThread ELSE m_mutex
    /\ UNCHANGED <<regVars, m_systemsMutex, questVars>>
    /\ UNCHANGED <<subscribedAs, publishedAs>>
    /\ UNCHANGED <<m_handlers, m_filteredHandlers, m_eventQueue, events>>

\* The handler calls Publish on the bus it is called from.
HandlerCallsPublish(t, type, filter, priority) ==
    /\ ~crashed
    /\ InHandler(t)
    /\ Top(t).pc = "body"
    /\ Len(events) < MaxEvents
    /\ stack' = [stack EXCEPT ![t] =
          Append(Pop(t), [Top(t) EXCEPT !.pc = "Publish",
                             !.arg = [type |-> type, filter |-> filter, priority |-> priority,
                                      own |-> Normal, object |-> Normal]])]
    /\ UNCHANGED <<regVars, m_systemsMutex, questVars>>
    /\ UNCHANGED <<subscribedAs, publishedAs>>
    /\ UNCHANGED <<m_mutex, m_handlers, m_filteredHandlers, m_eventQueue, events, busCalls>>

\* That Publish gets the mutex, queues the event and returns; the handler
\* goes on.
HandlerPublishes(t) ==
    /\ ~crashed
    /\ InHandler(t)
    /\ Top(t).pc = "Publish"
    /\ m_mutex = NoThread
    /\ Len(events) < MaxEvents
    /\ events' = Append(events, NewEvent(Top(t).arg.type, Top(t).arg.filter,
                                         Top(t).arg.priority, TRUE, Top(t).call))
    /\ m_eventQueue' = m_eventQueue \cup {Len(events) + 1}
    /\ stack' = [stack EXCEPT ![t] = Append(Pop(t), [Top(t) EXCEPT !.pc = "body", !.arg = NoArg])]
    /\ UNCHANGED <<regVars, m_systemsMutex, questVars>>
    /\ publishedAs' = Append(publishedAs, Top(t).arg)
    /\ UNCHANGED subscribedAs
    /\ UNCHANGED <<m_mutex, m_handlers, m_filteredHandlers, busCalls>>

----------------------------------------------------------------------------
(* The registry called from several threads.  RegisterSystem, UnloadSystem *)
(* and Deinitialize call nothing that takes a mutex, so the steps above    *)
(* stand for them; LoadSystem calls Initialize, which may call the bus,    *)
(* with m_systemsMutex held, and is taken apart here.                      *)

InLoad(t) == ~Idle(t) /\ Top(t).op = "LoadSystem"
InInitialize(t) == ~Idle(t) /\ Top(t).op = "Initialize"

\* LoadSystem<T>() from the lock_guard to the dependency loop.
LoadSystemEnter(t, T) ==
    /\ ~crashed
    /\ Idle(t)
    /\ m_systemsMutex = NoThread
    /\ calls' = <<>>
    /\ IF T \notin m_typeToName
       THEN /\ lastCall' = [op |-> "Load", name |-> T, ret |-> FALSE]
            /\ UNCHANGED <<stack, m_systemsMutex>>
       ELSE IF T \in m_activeSystems
       THEN /\ lastCall' = [op |-> "Load", name |-> T, ret |-> TRUE]
            /\ UNCHANGED <<stack, m_systemsMutex>>
       ELSE IF T \notin Registered
       THEN /\ lastCall' = [op |-> "Load", name |-> T, ret |-> FALSE]
            /\ UNCHANGED <<stack, m_systemsMutex>>
       ELSE \E ds \in Orderings(m_dependencies[T]) :
              /\ m_systemsMutex' = t
              /\ lastCall' = [op |-> "Load", name |-> T, ret |-> FALSE]
              /\ stack' = [stack EXCEPT ![t] =
                    <<[Frame("LoadSystem", 0, 0, "", 0, T, "", NoArg) EXCEPT
                          !.pending = ds \o <<T>>]>>]
    /\ UNCHANGED <<variant, m_dependencies, m_registeredSystems, m_activeSystems,
                   m_typeToName, m_initializationOrder, crashed>>
    /\ UNCHANGED <<m_mutex, m_handlers, m_filteredHandlers, m_eventQueue, events, busCalls>>
    /\ UNCHANGED <<subscribedAs, publishedAs>>
    /\ scenario' = Observe(lastCall')
    /\ UNCHANGED questVars

\* One round of the dependency loop, or the target's turn after it: a
\* dependency that is active is passed over, one that is not registered ends
\* the call with false, any other system has Initialize called.
LoadSystemStep(t) ==
    /\ ~crashed
    /\ InLoad(t)
    /\ Top(t).pending # <<>>
    /\ LET f == Top(t)
           d == Head(f.pending)
           isTarget == Len(f.pending) = 1
       IN  IF ~isTarget /\ d \in m_activeSystems
           THEN /\ stack' = [stack EXCEPT ![t] = <<[f EXCEPT !.pending = Tail(@)]>>]
                /\ UNCHANGED <<calls, m_systemsMutex>>
           ELSE IF ~isTarget /\ d \notin Registered
           THEN /\ stack' = [stack EXCEPT ![t] = <<>>]
                /\ m_systemsMutex' = NoThread
                /\ UNCHANGED calls
           ELSE /\ stack' = [stack EXCEPT ![t] =
                      <<f, Frame("Initialize", 0, 0, "", 0, d, "body", NoArg)>>]
                /\ calls' = Append(calls, Call("Initialize", d))
                /\ UNCHANGED m_systemsMutex
    /\ UNCHANGED <<variant, m_dependencies, m_registeredSystems, m_activeSystems,
                   m_typeToName, m_initializationOrder, crashed, lastCall>>
    /\ UNCHANGED <<m_mutex, m_handlers, m_filteredHandlers, m_eventQueue, events, busCalls>>
    /\ UNCHANGED <<subscribedAs, publishedAs>>
    /\ UNCHANGED scenario
    /\ UNCHANGED questVars

\* Initialize() calls Subscribe on the plugin's bus, as
\* CharacterProgressionSystem::Initialize does.
InitializeCallsSubscribe(t) ==
    /\ ~crashed
    /\ InInitialize(t)
    /\ Top(t).pc = "body"
    /\ Handlers \ Subscribed # {}
    /\ stack' = [stack EXCEPT ![t] = Append(Pop(t), [Top(t) EXCEPT !.pc = "Subscribe"])]
    /\ UNCHANGED <<regVars, m_systemsMutex, questVars>>
    /\ UNCHANGED <<subscribedAs, publishedAs>>
    /\ UNCHANGED <<m_mutex, m_handlers, m_filteredHandlers, m_eventQueue, events, busCalls>>

\* That Subscribe gets the bus mutex, adds the handler and returns.
InitializeSubscribes(t, h, type) ==
    /\ ~crashed
    /\ InInitialize(t)
    /\ Top(t).pc = "Subscribe"
    /\ m_mutex = NoThread
    /\ h \notin Subscribed
    /\ m_handlers' = [m_handlers EXCEPT ![type] = Append(@, h)]
    /\ stack' = [stack EXCEPT ![t] = Append(Pop(t), [Top(t) EXCEPT !.pc = "subscribed"])]
    /\ crashed' \in PushBackOutcomes(type, "")
    /\ UNCHANGED <<regState, m_systemsMutex, questVars>>
    /\ subscribedAs' = [subscribedAs EXCEPT ![h] = [type |-> type, filter |-> ""]]
    /\ UNCHANGED publishedAs
    /\ UNCHANGED <<m_mutex, m_filteredHandlers, m_eventQueue, events, busCalls>>

\* Initialize() returns and LoadSystem enters the system in m_activeSystems.
InitializeReturns(t) ==
    /\ ~crashed
    /\ InInitialize(t)
    /\ Top(t).pc \in {"body", "subscribed"}
    /\ m_activeSystems' = m_activeSystems \cup {Top(t).h}
    /\ stack' = [stack EXCEPT ![t] = <<[stack[t][1] EXCEPT !.pending = Tail(@)]>>]
    /\ UNCHANGED <<variant, m_dependencies, m_registeredSystems, m_typeToName,
                   m_initializationOrder, crashed, lastCall, calls, m_systemsMutex>>
    /\ UNCHANGED <<m_mutex, m_handlers, m_filteredHandlers, m_eventQueue, events, busCalls>>
    /\ UNCHANGED <<subscribedAs, publishedAs>>
    /\ UNCHANGED scenario
    /\ UNCHANGED questVars

\* LoadSystem returns true; the lock_guard releases m_systemsMutex.
LoadSystemReturns(t) ==
    /\ ~crashed
    /\ InLoad(t)
    /\ Top(t).pending = <<>>
    /\ stack' = [stack EXCEPT ![t] = <<>>]
    /\ m_systemsMutex' = NoThread
    /\ lastCall' = [op |-> "Load", name |-> Top(t).h, ret |-> TRUE]
    /\ UNCHANGED <<variant, m_dependencies, m_registeredSystems, m_activeSystems,
                   m_typeToName, m_initializationOrder, crashed, calls>>
    /\ UNCHANGED <<m_mutex, m_handlers, m_filteredHandlers, m_eventQueue, events, busCalls>>
    /\ UNCHANGED <<subscribedAs, publishedAs>>
    /\ scenario' = Observe(lastCall')
    /\ UNCHANGED questVars

\* GetSystem<T>() with the lookups the wrong way round: the name is looked
\* up among the registered systems, not among the active ones.
GetSystemOfRegistered(t, T) ==
    /\ ~crashed
    /\ Idle(t)
    /\ m_systemsMutex = NoThread
    /\ lastCall' = [op |-> "Get", name |-> T,
                    ret |-> (T \in m_typeToName /\ T \in Registered)]
    /\ calls' = <<>>
    /\ UNCHANGED <<variant, m_dependencies, m_registeredSystems, m_activeSystems,
                   m_typeToName, m_initializationOrder, crashed>>
    /\ UNCHANGED <<busVars, m_systemsMutex>>
    /\ scenario' = Observe(lastCall')
    /\ UNCHANGED questVars

\* GetSystem<T>(): lock_guard, the two lookups, return.
GetSystem(t, T) ==
    /\ ~crashed
    /\ Idle(t)
    /\ m_systemsMutex = NoThread
    /\ lastCall' = [op |-> "Get", name |-> T,
                    ret |-> (T \in m_typeToName /\ T \in m_activeSystems)]
    /\ calls' = <<>>
    /\ UNCHANGED <<variant, m_dependencies, m_registeredSystems, m_activeSystems,
                   m_typeToName, m_initializationOrder, crashed>>
    /\ UNCHANGED <<busVars, m_systemsMutex>>
    /\ scenario' = Observe(lastCall')
    /\ UNCHANGED questVars

\* The type of the system registered under a name: a type T registers under
\* the name written like T.
TypeOf(systemName) == systemName

\* GetSystem<T>(systemName): lock_guard, the lookup among the active systems,
\* dynamic_cast<T*> of what is found.
GetSystemByName(t, T, systemName) ==
    /\ ~crashed
    /\ Idle(t)
    /\ m_systemsMutex = NoThread
    /\ lastCall' = [op |-> "GetByName", name |-> systemName, type |-> T,
                    ret |-> (systemName \in m_activeSystems /\ TypeOf(systemName) = T)]
    /\ calls' = <<>>
    /\ UNCHANGED <<variant, m_dependencies, m_registeredSystems, m_activeSystems,
                   m_typeToName, m_initializationOrder, crashed>>
    /\ UNCHANGED <<busVars, m_systemsMutex>>
    /\ scenario' = Observe(lastCall')
    /\ UNCHANGED questVars

\* A handler calls GetSystem on the plugin.
HandlerCallsGetSystem(t) ==
    /\ ~crashed
    /\ InHandler(t)
    /\ Top(t).pc = "body"
    /\ stack' = [stack EXCEPT ![t] = Append(Pop(t), [Top(t) EXCEPT !.pc = "GetSystem"])]
    /\ UNCHANGED <<regVars, m_systemsMutex, questVars>>
    /\ UNCHANGED <<subscribedAs, publishedAs>>
    /\ UNCHANGED <<m_mutex, m_handlers, m_filteredHandlers, m_eventQueue, events, busCalls>>

\* That GetSystem gets m_systemsMutex, looks the system up and returns, and
\* the handler returns.
HandlerGetsSystem(t) ==
    /\ ~crashed
    /\ InHandler(t)
    /\ Top(t).pc = "GetSystem"
    /\ m_systemsMutex = NoThread
    /\ stack' = [stack EXCEPT ![t] = Pop(t)]
    /\ UNCHANGED <<regVars, m_systemsMutex, questVars>>
    /\ UNCHANGED <<subscribedAs, publishedAs>>
    /\ UNCHANGED <<m_mutex, m_handlers, m_filteredHandlers, m_eventQueue, events, busCalls>>

----------------------------------------------------------------------------
(* QuestSystem and CharacterProgressionSystem.                             *)

QuestIds == {"q1", "q2"}
\* Values of Quest::m_experienceReward.
Rewards == {0, 2}
\* Bound of a run with quests: the events the quest operations publish.
MaxQuestEvents == 3

\* The event types of QuestEvents.h on the bus.
QuestCompletedEvent == "E1"
QuestStateChangedEvent == "E2"

\* Quest::Quest: a new quest is Available and has no reward.
NewQuest == [state |-> "Available", reward |-> 0]

\* The object Publish(event) queues for a quest event: no filter, the default
\* priority, and the fields the operation has set.
QuestEvent(type, questId, experienceGained, oldState, newState) ==
    [type |-> type, filter |-> "", priority |-> SetPriority(Normal, Normal),
     queued |-> TRUE, origin |-> 0, at |-> Len(busCalls),
     questId |-> questId, experienceGained |-> experienceGained,
     oldState |-> oldState, newState |-> newState]

\* m_plugin->GetEventSystem().Publish(event), once for each event of evs.
PublishQuestEvents(evs) ==
    /\ Len(events) + Len(evs) <= MaxQuestEvents
    /\ events' = events \o evs
    /\ m_eventQueue' = m_eventQueue \cup (Len(events) + 1 .. Len(events) + Len(evs))
    /\ publishedAs' = publishedAs \o
          [i \in 1..Len(evs) |-> [type |-> evs[i].type, filter |-> "", priority |-> Normal,
                                  own |-> Normal, object |-> Normal]]

\* What every operation called on the QuestSystem the registry hands out
\* (GetSystem<QuestSystem>() of an active system) needs and leaves alone.
QuestCall(t) ==
    /\ ~crashed
    /\ Idle(t)
    /\ QuestSystem \in m_activeSystems
    /\ m_mutex = NoThread
    /\ m_systemsMutex = NoThread
    /\ UNCHANGED <<regVars, m_systemsMutex, m_experience>>
    /\ UNCHANGED <<m_mutex, m_handlers, m_filteredHandlers, stack, busCalls, subscribedAs>>

\* A failed operation: the result, and nothing else.
QuestReturns(op, id, ret) ==
    /\ questCall' = [op |-> op, id |-> id, ret |-> ret]
    /\ UNCHANGED <<m_quests, events, m_eventQueue, publishedAs>>

\* QuestSystem::AddQuest
AddQuest(t, id) ==
    /\ QuestCall(t)
    /\ IF id \in DOMAIN m_quests
       THEN QuestReturns("AddQuest", id, "AlreadyExists")
       ELSE /\ m_quests' = m_quests @@ (id :> NewQuest)
            /\ questCall' = [op |-> "AddQuest", id |-> id, ret |-> "Success"]
            /\ UNCHANGED <<events, m_eventQueue, publishedAs>>

\* GetQuest(id)->SetExperienceReward(reward) on a quest there is.  The game
\* sets a quest's reward once, between AddQuest and ActivateQuest.
SetExperienceReward(t, id, reward) ==
    /\ QuestCall(t)
    /\ id \in DOMAIN m_quests
    /\ m_quests[id] = NewQuest
    /\ m_quests[id].reward # reward
    /\ m_quests' = [m_quests EXCEPT ![id].reward = reward]
    /\ questCall' = [op |-> "SetExperienceReward", id |-> id, ret |-> "Success"]
    /\ UNCHANGED <<events, m_eventQueue, publishedAs>>

\* An ActivateQuest that does not look at the state the quest is in.
ActivateQuestInAnyState(t, id, meets) ==
    /\ QuestCall(t)
    /\ IF id \notin DOMAIN m_quests
       THEN QuestReturns("ActivateQuest", id, "NotFound")
       ELSE IF CharacterProgressionSystem \in m_activeSystems /\ ~meets
       THEN QuestReturns("ActivateQuest", id, "RequirementsNotMet")
       ELSE /\ m_quests' = [m_quests EXCEPT ![id].state = "Active"]
            /\ PublishQuestEvents(<<QuestEvent(QuestStateChangedEvent, id, 0,
                                               m_quests[id].state, "Active")>>)
            /\ questCall' = [op |-> "ActivateQuest", id |-> id, ret |-> "Success"]

\* QuestSystem::ActivateQuest; meets is what CheckRequirements makes of the
\* character's skills.
ActivateQuest(t, id, meets) ==
    /\ QuestCall(t)
    /\ IF id \notin DOMAIN m_quests
       THEN QuestReturns("ActivateQuest", id, "NotFound")
       ELSE IF m_quests[id].state # "Available"
       THEN QuestReturns("ActivateQuest", id, "InvalidState")
       ELSE IF CharacterProgressionSystem \in m_activeSystems /\ ~meets
       THEN QuestReturns("ActivateQuest", id, "RequirementsNotMet")
       ELSE /\ m_quests' = [m_quests EXCEPT ![id].state = "Active"]
            /\ PublishQuestEvents(<<QuestEvent(QuestStateChangedEvent, id, 0,
                                               m_quests[id].state, "Active")>>)
            /\ questCall' = [op |-> "ActivateQuest", id |-> id, ret |-> "Success"]

\* A CompleteQuest that publishes the completion twice.
CompleteQuestPublishesTwice(t, id) ==
    /\ QuestCall(t)
    /\ IF id \notin DOMAIN m_quests
       THEN QuestReturns("CompleteQuest", id, "NotFound")
       ELSE IF m_quests[id].state # "Active"
       THEN QuestReturns("CompleteQuest", id, "InvalidState")
       ELSE /\ m_quests' = [m_quests EXCEPT ![id].state = "Completed"]
            /\ PublishQuestEvents(
                  <<QuestEvent(QuestCompletedEvent, id, m_quests[id].reward, "", ""),
                    QuestEvent(QuestCompletedEvent, id, m_quests[id].reward, "", "")>>)
            /\ questCall' = [op |-> "CompleteQuest", id |-> id, ret |-> "Success"]

\* QuestSystem::CompleteQuest
CompleteQuest(t, id) ==
    /\ QuestCall(t)
    /\ IF id \notin DOMAIN m_quests
       THEN QuestReturns("CompleteQuest", id, "NotFound")
       ELSE IF m_quests[id].state # "Active"
       THEN QuestReturns("CompleteQuest", id, "InvalidState")
       ELSE /\ m_quests' = [m_quests EXCEPT ![id].state = "Completed"]
            /\ PublishQuestEvents(
                  <<QuestEvent(QuestCompletedEvent, id, m_quests[id].reward, "", ""),
                    QuestEvent(QuestStateChangedEvent, id, 0,
                               m_quests[id].state, "Completed")>>)
            /\ questCall' = [op |-> "CompleteQuest", id |-> id, ret |-> "Success"]

\* QuestSystem::FailQuest
FailQuest(t, id) ==
    /\ QuestCall(t)
    /\ IF id \notin DOMAIN m_quests
       THEN QuestReturns("FailQuest", id, "NotFound")
       ELSE IF m_quests[id].state # "Active"
       THEN QuestReturns("FailQuest", id, "InvalidState")
       ELSE /\ m_quests' = [m_quests EXCEPT ![id].state = "Failed"]
            /\ PublishQuestEvents(<<QuestEvent(QuestStateChangedEvent, id, 0,
                                               m_quests[id].state, "Failed")>>)
            /\ questCall' = [op |-> "FailQuest", id |-> id, ret |-> "Success"]

\* m_experience after GainExperience(amount)
GainExperience(amount) == m_experience + amount

\* The handler CharacterProgressionSystem::Initialize subscribes:
\* HandleQuestCompleted(event), from its call to its return.
HandleQuestCompleted(t) ==
    /\ ~crashed
    /\ InHandler(t)
    /\ Top(t).pc = "body"
    /\ m_experience' = IF events[Top(t).i].experienceGained > 0
                       THEN GainExperience(events[Top(t).i].experienceGained)
                       ELSE m_experience
    /\ stack' = [stack EXCEPT ![t] = Pop(t)]
    /\ UNCHANGED <<regVars, m_systemsMutex, m_quests, questCall>>
    /\ UNCHANGED <<subscribedAs, publishedAs>>
    /\ UNCHANGED <<m_mutex, m_handlers, m_filteredHandlers, m_eventQueue, events, busCalls>>

----------------------------------------------------------------------------
BusInit ==
    /\ m_mutex = NoThread
    /\ m_systemsMutex = NoThread
    /\ m_handlers = [ty \in EventTypes |-> <<>>]
    /\ m_filteredHandlers = [ty \in EventTypes |-> [f \in Filters \ {""} |-> <<>>]]
    /\ m_eventQueue = {}
    /\ events = <<>>
    /\ stack = [t \in Threads |-> <<>>]
    /\ busCalls = <<>>
    /\ subscribedAs = [h \in Handlers |-> NotSubscribed]
    /\ publishedAs = <<>>
    /\ m_quests = <<>>
    /\ m_experience = 0
    /\ questCall = [op |-> "none", id |-> "", ret |-> "Success"]

Init ==
    /\ BusInit
    /\ variant \in Variants
    /\ m_dependencies \in [Modules -> SUBSET Modules]
    /\ m_registeredSystems = <<>>
    /\ m_activeSystems = {}
    /\ m_typeToName = {}
    /\ m_initializationOrder = <<>>
    /\ crashed = FALSE
    /\ lastCall = [op |-> "none", name |-> "", ret |-> TRUE]
    /\ calls = <<>>
    /\ scenario = NoScenario

Next ==
    \/ \E T \in Modules : RegisterSystem(T)
    \/ \E T \in Modules : LoadSystem(T)
    \/ \E T \in Modules : UnloadSystem(T)
    \/ Update
    \/ Deinitialize

Spec == Init /\ [][Next]_vars

\* The bus with two threads; the registry stays as constructed.
InitBus ==
    /\ BusInit
    /\ variant = "LinenPlugin"
    /\ m_dependencies = [n \in Modules |-> {}]
    /\ m_registeredSystems = <<>>
    /\ m_activeSystems = {}
    /\ m_typeToName = {}
    /\ m_initializationOrder = <<>>
    /\ crashed = FALSE
    /\ lastCall = [op |-> "none", name |-> "", ret |-> TRUE]
    /\ calls = <<>>
    /\ scenario = NoScenario

\* The arguments the threads of SpecBus call the bus with.
BusTypes == {"E1"}
BusPriorities == {Normal, Critical}
\* The filters the bus is subscribed to there.
BusFilters == {"", "f"}

NextBus ==
    \/ \E t \in Threads, h \in Handlers, ty \in BusTypes, f \in BusFilters : Subscribe(t, h, ty, f)
    \/ \E t \in Threads, ty \in BusTypes, p \in BusPriorities : Publish(t, ty, "f", p)
    \/ \E t \in Threads, ty \in BusTypes : PublishImmediate(t, ty, "f")
    \/ \E t \in Threads : ProcessEvents(t)
    \/ \E t \in Threads : InvokeHandler(t)
    \/ \E t \in Threads : FinishEvent(t)
    \/ \E t \in Threads : ReturnFromDelivery(t)
    \/ \E t \in Threads : HandlerReturn(t)
    \/ \E t \in Threads : HandlerThrow(t)
    \/ \E t \in Threads, ty \in BusTypes, p \in BusPriorities : HandlerCallsPublish(t, ty, "", p)
    \/ \E t \in Threads : HandlerPublishes(t)

SpecBus == InitBus /\ [][NextBus]_vars

\* Registry and bus called from two threads.  One system type is enough for
\* the two mutexes to meet; it declares no dependency.
LockModules == {"A"}

NextLock ==
    \/ \E t \in Threads, T \in LockModules : Idle(t) /\ RegisterSystem(T)
    \/ \E t \in Threads, T \in LockModules : LoadSystemEnter(t, T)
    \/ \E t \in Threads : LoadSystemStep(t)
    \/ \E t \in Threads : InitializeCallsSubscribe(t)
    \/ \E t \in Threads, h \in Handlers, ty \in BusTypes : InitializeSubscribes(t, h, ty)
    \/ \E t \in Threads : InitializeReturns(t)
    \/ \E t \in Threads : LoadSystemReturns(t)
    \/ \E t \in Threads, T \in LockModules : Idle(t) /\ UnloadSystem(T)
    \/ \E t \in Threads, T \in LockModules : GetSystem(t, T)
    \/ \E t \in Threads : Idle(t) /\ Deinitialize
    \/ \E t \in Threads, h \in Handlers, ty \in BusTypes : Subscribe(t, h, ty, "")
    \/ \E t \in Threads, ty \in BusTypes : Publish(t, ty, "", Normal)
    \/ \E t \in Threads, ty \in BusTypes : PublishImmediate(t, ty, "")
    \/ \E t \in Threads : ProcessEvents(t)
    \/ \E t \in Threads : InvokeHandler(t)
    \/ \E t \in Threads : FinishEvent(t)
    \/ \E t \in Threads : ReturnFromDelivery(t)
    \/ \E t \in Threads : HandlerReturn(t)
    \/ \E t \in Threads, ty \in BusTypes : HandlerCallsPublish(t, ty, "", Normal)
    \/ \E t \in Threads : HandlerPublishes(t)
    \/ \E t \in Threads : HandlerCallsGetSystem(t)
    \/ \E t \in Threads : HandlerGetsSystem(t)

SpecLock == InitBus /\ [][NextLock]_vars

\* The registry of LinenPlugin with its two lookups, called from one thread.
InitGet == Init /\ variant = "LinenPlugin"

NextGet ==
    \/ \E T \in Modules : RegisterSystem(T)
    \/ \E T \in Modules : LoadSystem(T)
    \/ \E T \in Modules : UnloadSystem(T)
    \/ \E T \in Modules : GetSystem("t1", T)
    \/ \E T \in Modules, n \in Modules : GetSystemByName("t1", T, n)
    \/ Update

SpecGet == InitGet /\ [][NextGet]_vars

\* The registry called from two threads, any of which may run Tick; B
\* declares A, the other systems declare nothing.

InitTick ==
    /\ BusInit
    /\ variant = "LinenPlugin"
    /\ m_dependencies = [n \in Modules |-> IF n = "B" THEN {"A"} ELSE {}]
    /\ m_registeredSystems = <<>>
    /\ m_activeSystems = {}
    /\ m_typeToName = {}
    /\ m_initializationOrder = <<>>
    /\ crashed = FALSE
    /\ lastCall = [op |-> "none", name |-> "", ret |-> TRUE]
    /\ calls = <<>>
    /\ scenario = NoScenario

NextTick ==
    \/ \E t \in Threads, T \in Modules : Idle(t) /\ RegisterSystem(T)
    \/ \E t \in Threads, T \in Modules : LoadSystemEnter(t, T)
    \/ \E t \in Threads : LoadSystemStep(t)
    \/ \E t \in Threads : InitializeReturns(t)
    \/ \E t \in Threads : LoadSystemReturns(t)
    \/ \E t \in Threads, T \in Modules : Idle(t) /\ UnloadSystem(T)
    \/ \E t \in Threads : Idle(t) /\ Deinitialize
    \/ \E t \in Threads : Idle(t) /\ Update

SpecTick == InitTick /\ [][NextTick]_vars

\* The bus called from the one thread that runs Tick: it subscribes,
\* publishes and calls ProcessEvents, and its handlers publish, return or
\* throw.  The thread keeps running and ProcessEvents keeps being called, as
\* long as the bounds of the run allow: a step that can be taken is taken.
TickThread == "t1"

NextDrain ==
    \/ \E h \in Handlers, ty \in BusTypes, f \in BusFilters : Subscribe(TickThread, h, ty, f)
    \/ \E ty \in BusTypes, p \in BusPriorities : Publish(TickThread, ty, "f", p)
    \/ ProcessEvents(TickThread)
    \/ InvokeHandler(TickThread)
    \/ FinishEvent(TickThread)
    \/ ReturnFromDelivery(TickThread)
    \/ HandlerReturn(TickThread)
    \/ HandlerThrow(TickThread)
    \/ \E ty \in BusTypes, p \in BusPriorities : HandlerCallsPublish(TickThread, ty, "f", p)
    \/ HandlerPublishes(TickThread)

SpecDrain == InitBus /\ [][NextDrain]_vars /\ WF_vars(NextDrain)

\* The thread that runs Tick publishing event objects whose priority it has
\* set itself, and draining the queue.
NextPriority ==
    \/ \E h \in Handlers, ty \in BusTypes : Subscribe(TickThread, h, ty, "f")
    \/ \E ty \in BusTypes, p \in BusPriorities, own \in Priorities :
          PublishObject(TickThread, ty, "f", p, own)
    \/ ProcessEvents(TickThread)
    \/ InvokeHandler(TickThread)
    \/ FinishEvent(TickThread)
    \/ ReturnFromDelivery(TickThread)
    \/ HandlerReturn(TickThread)

SpecPriority == InitBus /\ [][NextPriority]_vars

----------------------------------------------------------------------------
(* The dependency graph the registered systems declare.                    *)

RECURSIVE DependencyClosure(_, _)
DependencyClosure(S, k) ==
    IF k = 0 THEN S
    ELSE DependencyClosure(S \cup UNION {m_dependencies[m] : m \in S \cap Modules}, k - 1)

\* Every name n depends on, directly or through other systems.
TransitiveDependencies(n) == DependencyClosure(m_dependencies[n], Cardinality(Modules))

DependenciesRegistered == \A n \in Registered : m_dependencies[n] \subseteq Registered

Cyclic(names) == \E n \in names : n \in TransitiveDependencies(n)

IndexOf(seq, x) == CHOOSE i \in 1..Len(seq) : seq[i] = x

\* order holds each of names once, every system after all it depends on.
IsDependencyOrder(order, names) ==
    /\ Len(order) = Cardinality(names)
    /\ {order[i] : i \in 1..Len(order)} = names
    /\ \A i, j \in 1..Len(order) :
          order[j] \in TransitiveDependencies(order[i]) => j < i

CalledSystems(f) == {calls[i].sys : i \in {k \in 1..Len(calls) : calls[k].f = f}}

----------------------------------------------------------------------------
(* Registry claims.                                                        *)

\* C1: on LinenPlugin, after successful Register calls with an acyclic graph
\* whose dependencies are all registered, the initialization order holds every
\* registered system exactly once, each after all it transitively depends on.
C1_OrderIsTopological ==
    (/\ variant = "LinenPlugin"
     /\ ~crashed
     /\ lastCall.op = "Register" /\ lastCall.ret
     /\ DependenciesRegistered
     /\ ~Cyclic(Registered))
    => IsDependencyOrder(m_initializationOrder, Registered)

\* C2: one Tick calls Update exactly once on every active system and on no
\* inactive one, each after its active dependencies, and then ProcessEvents
\* exactly once, after the last Update.
C2_TickUpdatesEveryActive ==
    lastCall.op = "Tick" =>
        /\ Len(calls) = Cardinality(m_activeSystems) + 1
        /\ calls[Len(calls)] = Call("ProcessEvents", "EventSystem")
        /\ \A i \in 1..(Len(calls) - 1) : calls[i].f = "Update"
        /\ CalledSystems("Update") = m_activeSystems
        /\ \A i, j \in 1..(Len(calls) - 1) :
              (i # j /\ calls[j].sys \in m_dependencies[calls[i].sys]) => j < i

\* C3: after a successful Load(X) every system X transitively depends on is
\* active, and every system initialized by the call was initialized after all
\* of its own dependencies.  Stated for the graphs on which nothing else can
\* interfere: acyclic, with every dependency registered.
C3_LoadActivatesTransitively ==
    (/\ lastCall.op = "Load" /\ lastCall.ret
     /\ DependenciesRegistered /\ ~Cyclic(Registered)) =>
        /\ TransitiveDependencies(lastCall.name) \subseteq m_activeSystems
        /\ \A i \in 1..Len(calls) :
              \A d \in m_dependencies[calls[i].sys] \ {calls[i].sys} :
                 /\ d \in m_activeSystems
                 /\ d \in CalledSystems("Initialize") => IndexOf(calls, Call("Initialize", d)) < i

\* C4: Unload(X) of an active X fails, calling no Shutdown and leaving X
\* active, exactly when an active system lists X as a dependency; otherwise it
\* calls Shutdown on X once and X becomes inactive.
C4_UnloadRefusedIffActiveDependent ==
    [][\A X \in Modules :
         (lastCall'.op = "Unload" /\ lastCall'.name = X /\ X \in m_activeSystems) =>
            IF \E a \in m_activeSystems : X \in m_dependencies[a]
            THEN /\ ~lastCall'.ret
                 /\ calls' = <<>>
                 /\ m_activeSystems' = m_activeSystems
            ELSE /\ lastCall'.ret
                 /\ calls' = <<Call("Shutdown", X)>>
                 /\ m_activeSystems' = m_activeSystems \ {X}]_vars

\* An Unload refused because of another active system that depends on it.
C4_Witness ==
    /\ lastCall.op = "Unload" /\ ~lastCall.ret
    /\ lastCall.name \in m_activeSystems
    /\ \E a \in m_activeSystems \ {lastCall.name} : lastCall.name \in m_dependencies[a]

\* C5: a Register call that leaves the registered graph cyclic leaves the
\* initialization order as it was before the call.
C5_CycleKeepsPriorOrder ==
    [][(/\ lastCall'.op = "Register" /\ lastCall'.ret
        /\ DOMAIN m_registeredSystems' # DOMAIN m_registeredSystems
        /\ ~crashed'
        /\ \E n \in DOMAIN m_registeredSystems' : n \in TransitiveDependencies(n))
       => m_initializationOrder' = m_initializationOrder]_vars

----------------------------------------------------------------------------
(* Bus claims.                                                             *)

EventIds == 1..Len(events)
CallIds == 1..Len(busCalls)
Range(seq) == {seq[i] : i \in 1..Len(seq)}
ProcessEventsCalls == {k \in CallIds : busCalls[k].op = "ProcessEvents"}

\* How often call k's trace holds the entry (ev, h).
TraceCount(k, ev, h) ==
    Cardinality({i \in 1..Len(busCalls[k].trace) :
                    busCalls[k].trace[i] = [ev |-> ev, h |-> h]})

\* Call k's handler loops have been entered for event ev.
Reached(k, ev) == \E i \in 1..Len(busCalls[k].trace) : busCalls[k].trace[i].ev = ev

\* C6: every queued event is detached by exactly one ProcessEvents call, is
\* delivered by that call (once the call is over, its handler loops have been
\* entered for the event) and is handed to no handler twice.
C6_DeliveredExactlyOnce ==
    \A e \in EventIds : events[e].queued =>
        /\ Cardinality({k \in ProcessEventsCalls : e \in Range(busCalls[k].batch)})
              = (IF e \in m_eventQueue THEN 0 ELSE 1)
        /\ \A k \in ProcessEventsCalls :
              /\ \A h \in Handlers \cup {"done"} : TraceCount(k, e, h) <= 1
              /\ Reached(k, e) => e \in Range(busCalls[k].batch)
              /\ (e \in Range(busCalls[k].batch) /\ busCalls[k].status # "running")
                    => Reached(k, e)

\* C7: within one ProcessEvents call no event is delivered before an event
\* of strictly higher priority of the same batch.
C7_PriorityOrderWithinCall ==
    \A k \in ProcessEventsCalls :
        \A i, j \in 1..Len(busCalls[k].trace) :
            i < j => events[busCalls[k].trace[i].ev].priority
                        >= events[busCalls[k].trace[j].ev].priority

\* A call has delivered an event published later than, and of higher priority
\* than, the event it delivered next.
C7_Witness ==
    \E k \in ProcessEventsCalls :
        \E i, j \in 1..Len(busCalls[k].trace) :
            /\ i < j
            /\ busCalls[k].trace[i].ev > busCalls[k].trace[j].ev
            /\ events[busCalls[k].trace[i].ev].priority
                  > events[busCalls[k].trace[j].ev].priority
            /\ busCalls[k].trace[i].h \in Handlers

\* The ProcessEvents calls begun after event e was created.
LaterDrains(e) == {k \in ProcessEventsCalls : k > events[e].at}
Least(S) == CHOOSE k \in S : \A o \in S : k <= o

\* C8: an event a handler publishes while ProcessEvents delivers a batch is
\* not in that batch and is not delivered by that call, whatever its priority;
\* it is pending until the next ProcessEvents call begins, and that call is
\* the one that takes and delivers it.
C8_HandlerPublishedWaitsForNextCall ==
    \A e \in EventIds :
        (events[e].origin \in ProcessEventsCalls) =>
            /\ e \notin Range(busCalls[events[e].origin].batch)
            /\ \A i \in 1..Len(busCalls[events[e].origin].trace) :
                  busCalls[events[e].origin].trace[i].ev # e
            /\ IF LaterDrains(e) = {}
               THEN e \in m_eventQueue
               ELSE /\ e \notin m_eventQueue
                    /\ \A k \in ProcessEventsCalls :
                          e \in Range(busCalls[k].batch) <=> k = Least(LaterDrains(e))
                    /\ busCalls[Least(LaterDrains(e))].status = "returned"
                          => TraceCount(Least(LaterDrains(e)), e, "done") = 1

\* A Critical event published by a handler during one drain was delivered to
\* a handler by a later drain, which has returned.
C8_Witness ==
    \E e \in EventIds, k \in ProcessEventsCalls :
        /\ events[e].origin \in ProcessEventsCalls
        /\ events[e].priority = Critical
        /\ k # events[e].origin
        /\ busCalls[k].status = "returned"
        /\ \E h \in Handlers : TraceCount(k, e, h) = 1

\* C9: no handler runs while the thread that runs it holds the bus mutex, so
\* a handler's own call into the bus never waits for its own thread.
C9_NoHandlerUnderMutex ==
    \A t \in Threads :
        (\E i \in 1..Len(stack[t]) : stack[t][i].op = "Handle") => m_mutex # t

\* The mutex thread t is waiting for inside a call, if any.
WaitsFor(t) ==
    IF Idle(t) THEN "none"
    ELSE IF Top(t).pc \in {"Publish", "Subscribe"} THEN "m_mutex"
    ELSE IF Top(t).pc = "GetSystem" THEN "m_systemsMutex"
    ELSE "none"

Holder(mutex) == IF mutex = "m_mutex" THEN m_mutex ELSE m_systemsMutex

\* C10: no thread waits for a mutex it holds itself, and no two threads wait
\* for the mutex the other holds.
C10_NoDeadlock ==
    \A t \in Threads :
        WaitsFor(t) # "none" =>
            /\ Holder(WaitsFor(t)) # t
            /\ \A u \in Threads \ {t} :
                  ~(/\ Holder(WaitsFor(t)) = u
                    /\ WaitsFor(u) # "none"
                    /\ Holder(WaitsFor(u)) = t)

\* C11: a ProcessEvents or PublishImmediate call that is over has returned to
\* its caller (no handler's exception left it) and has been through both
\* handler loops of every event of its batch.
C11_HandlerFailureIsolated ==
    \A k \in CallIds : busCalls[k].status # "running" =>
        /\ busCalls[k].status = "returned"
        /\ \A e \in Range(busCalls[k].batch) : TraceCount(k, e, "done") = 1

\* The bucket of type ty and filter f; the filter "" names the global bucket.
Bucket(ty, f) == IF f = "" THEN m_handlers[ty] ELSE m_filteredHandlers[ty][f]

\* The buckets that hold handler h.
InBuckets(h) == {b \in EventTypes \X Filters : h \in Range(Bucket(b[1], b[2]))}

\* No bucket is reordered or shortened: a step leaves it alone or appends to it.
BucketsAppendOnly ==
    \A b \in EventTypes \X Filters :
        \/ Bucket(b[1], b[2])' = Bucket(b[1], b[2])
        \/ \E h \in Handlers : Bucket(b[1], b[2])' = Append(Bucket(b[1], b[2]), h)

\* Every subscribed handler is in the global bucket of its type, and one
\* subscribed with a filter is in the bucket of type and filter as well.
InGlobalAndFilterBucket ==
    \A h \in Handlers : subscribedAs[h] # NotSubscribed =>
        InBuckets(h) = {<<subscribedAs[h].type, "">>,
                        <<subscribedAs[h].type, subscribedAs[h].filter>>}

\* C12 as stated: Subscribe with a filter adds the handler to the global
\* bucket and to the type+filter bucket, Subscribe without a filter to the
\* global bucket only; buckets keep subscription order.
C12_FilteredHandlerAlsoGlobal == [][InGlobalAndFilterBucket' /\ BucketsAppendOnly]_vars

\* Every subscribed handler is in exactly one bucket, once: the one its
\* Subscribe call named.
InOneBucket ==
    \A h \in Handlers :
        IF subscribedAs[h] = NotSubscribed THEN InBuckets(h) = {}
        ELSE LET b == <<subscribedAs[h].type, subscribedAs[h].filter>>
             IN  /\ InBuckets(h) = {b}
                 /\ Cardinality({i \in 1..Len(Bucket(b[1], b[2])) :
                                    Bucket(b[1], b[2])[i] = h}) = 1

\* C12, amended: Subscribe with a filter adds the handler to the type+filter
\* bucket only, Subscribe without a filter to the global bucket only; buckets
\* keep subscription order.
C12_SubscribeAddsToOneBucket == [][InOneBucket' /\ BucketsAppendOnly]_vars

\* A handler subscribed with a filter, after a handler subscribed to the same
\* type and filter before it.
C12_Witness ==
    \E h, g \in Handlers :
        /\ h # g
        /\ subscribedAs[h] = [type |-> "E1", filter |-> "f"]
        /\ subscribedAs[g] = [type |-> "E1", filter |-> "f"]
        /\ m_filteredHandlers["E1"]["f"] = <<g, h>>
        /\ m_handlers["E1"] = <<>>

\* The handlers call k has invoked for event e, in the order of the calls.
HandlersOf(k, e) ==
    LET sel == SelectSeq(busCalls[k].trace, LAMBDA x : x.ev = e /\ x.h # "done")
    IN  [i \in 1..Len(sel) |-> sel[i].h]

\* The handlers an event of this type and filter goes to.
MatchingHandlers(type, filter) ==
    Range(m_handlers[type])
        \cup (IF filter # "" THEN Range(m_filteredHandlers[type][filter]) ELSE {})

\* Call k is on some thread's stack, as the delivery itself or as a handler
\* it has invoked.
OnStack(k) ==
    \E t \in Threads : \E i \in 1..Len(stack[t]) :
        stack[t][i].call = k /\ stack[t][i].op \in {"PublishImmediate", "ProcessEvents", "Handle"}

\* C13: when a PublishImmediate call returns, it has invoked every handler of
\* the global bucket of the event's type and, for an event with a filter,
\* every handler of the type+filter bucket, and each of them has returned; no
\* step from the call to its return changes the pending queue.
C13_ImmediateRunsAllHandlers ==
    [][\A k \in DOMAIN busCalls' : busCalls'[k].op = "PublishImmediate" =>
          LET e == busCalls'[k].batch[1]
          IN  /\ (k \notin DOMAIN busCalls \/ busCalls[k].status = "running")
                    => m_eventQueue' = m_eventQueue
              /\ (k \in DOMAIN busCalls /\ busCalls[k].status = "running"
                     /\ busCalls'[k].status = "returned")
                    => /\ MatchingHandlers(events[e].type, events[e].filter)
                             = Range(HandlersOf(k, e))
                       /\ ~OnStack(k)'
                       /\ publishedAs[e].type = events[e].type
                       /\ publishedAs[e].filter = events[e].filter]_vars

\* A PublishImmediate call that has returned after a global and a filtered
\* handler, with an event pending in the queue all the while.
C13_Witness ==
    \E k \in CallIds :
        /\ busCalls[k].op = "PublishImmediate"
        /\ busCalls[k].status = "returned"
        /\ Len(HandlersOf(k, busCalls[k].batch[1])) = 2
        /\ m_handlers["E1"] # <<>>
        /\ m_filteredHandlers["E1"]["f"] # <<>>
        /\ m_eventQueue # {}
        /\ \A e \in m_eventQueue : events[e].at < k

IsPrefix(a, b) == Len(a) <= Len(b) /\ SubSeq(b, 1, Len(a)) = a

\* The handlers of event e's filter bucket; none for an event without filter.
FilteredBucketOf(e) ==
    IF events[e].filter # "" THEN m_filteredHandlers[events[e].type][events[e].filter]
    ELSE <<>>

\* The handlers call k has invoked for event e are handlers of the global
\* bucket from its first on, in bucket order, followed by handlers of the
\* event's filter bucket from its first on, in bucket order.
GlobalThenFiltered(k, e) ==
    LET hs == HandlersOf(k, e)
    IN  \E n \in 0..Len(hs) :
            /\ IsPrefix(SubSeq(hs, 1, n), m_handlers[events[e].type])
            /\ IsPrefix(SubSeq(hs, n + 1, Len(hs)), FilteredBucketOf(e))

\* C14: for every event a ProcessEvents or PublishImmediate call delivers,
\* the handlers run in the order global bucket, then filter bucket, each in
\* subscription order from the first handler on and none passed over; when
\* the call is through with the event, it has run every handler of the two
\* buckets that was subscribed when the call began.
C14_GlobalThenFilteredOrder ==
    [][\A k \in DOMAIN busCalls' : \A e \in Range(busCalls'[k].batch) :
          /\ GlobalThenFiltered(k, e)'
          /\ (k \in DOMAIN busCalls /\ TraceCount(k, e, "done") = 0
                 /\ TraceCount(k, e, "done")' = 1)
                => \A h \in busCalls[k].known :
                      h \in MatchingHandlers(events[e].type, events[e].filter)
                          => h \in Range(HandlersOf(k, e)')]_vars

\* A ProcessEvents call is through with an event with a filter after a
\* handler of the global bucket and a handler of the filter bucket.
C14_Witness ==
    \E k \in ProcessEventsCalls : \E e \in Range(busCalls[k].batch) :
        /\ TraceCount(k, e, "done") = 1
        /\ Len(HandlersOf(k, e)) = 2
        /\ m_handlers[events[e].type] = <<HandlersOf(k, e)[1]>>
        /\ FilteredBucketOf(e) = <<HandlersOf(k, e)[2]>>

\* C15: a step in which Publish queues an event invokes no handler (no call
\* gains a trace entry, no thread's stack gains a frame), leaves the
\* subscriber table and the events made before as they are, and adds to the
\* pending queue exactly the one new event, which has the type, filter and
\* priority of the call's arguments.
C15_PublishOnlyQueues ==
    [][(Len(events') = Len(events) + 1 /\ events'[Len(events')].queued) =>
          LET e == Len(events')
          IN  /\ e \notin m_eventQueue
              /\ m_eventQueue' = m_eventQueue \cup {e}
              /\ events'[e].type = publishedAs'[e].type
              /\ events'[e].filter = publishedAs'[e].filter
              /\ events'[e].priority = publishedAs'[e].priority
              /\ SubSeq(events', 1, Len(events)) = events
              /\ m_handlers' = m_handlers
              /\ m_filteredHandlers' = m_filteredHandlers
              /\ busCalls' = busCalls
              /\ \A t \in Threads : Len(stack'[t]) = Len(stack[t])]_vars

\* A Critical event with a filter is in the queue, a handler is subscribed
\* to it, and no handler has been invoked.
C15_Witness ==
    /\ \E e \in m_eventQueue :
          /\ publishedAs[e].type = "E1" /\ publishedAs[e].filter = "f"
          /\ publishedAs[e].priority = Critical
          /\ events[e].priority = Critical
    /\ m_filteredHandlers["E1"]["f"] # <<>>
    /\ busCalls = <<>>

\* Thread t is executing a handler.
RunsHandler(t) == \E i \in 1..Len(stack[t]) : stack[t][i].op = "Handle"

\* C16: while a thread is executing a handler, inside ProcessEvents or inside
\* PublishImmediate, another thread that calls Publish gets the mutex, queues
\* its event and returns without waiting for the handler.
C16_PublishNeverWaitsForHandler ==
    \A t \in Threads : \A u \in Threads \ {t} :
        (~crashed /\ RunsHandler(t) /\ Idle(u) /\ Len(events) < MaxEvents)
            => ENABLED Publish(u, "E1", "f", Normal)

----------------------------------------------------------------------------
(* Registry claims, continued.                                             *)

\* The systems of the calls in cs, in the order of the calls.
SystemsOf(cs) == [i \in 1..Len(cs) |-> cs[i].sys]

\* C17: Deinitialize calls Shutdown, and nothing else, exactly once on every
\* system that is active when it starts and on no other, in the reverse of
\* the initialization order, no system before a system that depends on it.
C17_TeardownShutsDownActive ==
    [][lastCall'.op = "Deinitialize" =>
          /\ \A i \in 1..Len(calls') : calls'[i].f = "Shutdown"
          /\ Len(calls') = Cardinality(m_activeSystems)
          /\ Range(SystemsOf(calls')) = m_activeSystems
          /\ SystemsOf(calls') =
                SelectSeq(Reverse(m_initializationOrder), LAMBDA n : n \in m_activeSystems)
          /\ \A i, j \in 1..Len(calls') :
                (i < j /\ calls'[i].sys # calls'[j].sys)
                   => calls'[i].sys \notin m_dependencies[calls'[j].sys]]_vars

\* C18: a Load(X) that fails because a dependency of X is not registered
\* has not called Initialize on X and leaves X inactive, the systems it did
\* initialize are active after it, one Initialize each; and no Load call,
\* a retry included, calls Initialize on a system that was active when the
\* call began.
C18_FailedLoadLeavesNoHalfLoad ==
    [][\A X \in Modules : (lastCall'.op = "Load" /\ lastCall'.name = X) =>
          /\ \A i \in 1..Len(calls') :
                calls'[i].f = "Initialize" /\ calls'[i].sys \notin m_activeSystems
          /\ (/\ ~lastCall'.ret
              /\ X \in m_typeToName /\ X \in Registered /\ X \notin m_activeSystems
              /\ ~(m_dependencies[X] \subseteq Registered))
             => /\ X \notin m_activeSystems'
                /\ X \notin Range(SystemsOf(calls'))
                /\ m_activeSystems' = m_activeSystems \cup Range(SystemsOf(calls'))
                /\ Len(calls') = Cardinality(Range(SystemsOf(calls')))]_vars

\* C19: Load(X) of an active X returns true, calls Initialize on no system
\* and leaves the active set, the registered systems, the type-to-name map
\* and the initialization order as they are.
C19_LoadOfActiveIsNoOp ==
    [][\A X \in Modules :
          (lastCall'.op = "Load" /\ lastCall'.name = X /\ X \in m_activeSystems) =>
             /\ lastCall'.ret
             /\ calls' = <<>>
             /\ m_activeSystems' = m_activeSystems
             /\ m_registeredSystems' = m_registeredSystems
             /\ m_typeToName' = m_typeToName
             /\ m_initializationOrder' = m_initializationOrder]_vars

\* A second Load of a system that has a dependency, both active.
C19_Witness ==
    /\ lastCall = [op |-> "Load", name |-> lastCall.name, ret |-> TRUE]
    /\ calls = <<>>
    /\ lastCall.name \in m_activeSystems
    /\ \E d \in m_activeSystems \ {lastCall.name} : d \in m_dependencies[lastCall.name]

\* C20: Register of a name that is registered returns false and leaves the
\* registered systems, the type-to-name map, the active set and the
\* initialization order as they are; it calls nothing.
C20_DuplicateRegisterChangesNothing ==
    [][\A X \in Modules :
          (lastCall'.op = "Register" /\ lastCall'.name = X /\ X \in Registered) =>
             /\ ~lastCall'.ret
             /\ calls' = <<>>
             /\ m_registeredSystems' = m_registeredSystems
             /\ m_typeToName' = m_typeToName
             /\ m_activeSystems' = m_activeSystems
             /\ m_initializationOrder' = m_initializationOrder
             /\ crashed' = crashed]_vars

\* A refused Register of a registered, active system, with an order in place.
C20_Witness ==
    /\ lastCall.op = "Register" /\ ~lastCall.ret
    /\ lastCall.name \in Registered
    /\ lastCall.name \in m_activeSystems
    /\ m_initializationOrder # <<>>

\* C21: GetSystem<T>(), by type or by name, returns a system only when the
\* system named is active and is a T; for a system that is not registered,
\* registered and never loaded, unloaded, or of another type it returns null.
C21_GetReturnsOnlyActiveOfType ==
    (/\ lastCall.op = "Get"
        => (lastCall.ret <=> lastCall.name \in m_activeSystems))
    /\ (lastCall.op = "GetByName"
        => (lastCall.ret <=> (/\ lastCall.name \in m_activeSystems
                              /\ TypeOf(lastCall.name) = lastCall.type)))
    /\ m_activeSystems \subseteq Registered
    /\ m_activeSystems \subseteq m_typeToName

\* GetSystem<T>() has returned null for a system that is registered and
\* not active, while another system is active.
C21_Witness ==
    /\ lastCall.op = "Get" /\ ~lastCall.ret
    /\ lastCall.name \in Registered \ m_activeSystems
    /\ m_activeSystems # {}

\* C22: with C declaring B, B declaring A and A declaring nothing, the calls
\* Register(C), Register(A), Register(B) on a fresh registry, in this order,
\* all return true and leave every registered module stored; after the third
\* the initialization order is A, B, C.
C22_ChainRegisteredOutOfOrder ==
    (m_dependencies = ChainDependencies
        /\ scenario.reg \in {<<"C">>, <<"C", "A">>, <<"C", "A", "B">>})
    => /\ ~crashed
       /\ lastCall.op = "Register" /\ lastCall.ret
       /\ Range(scenario.reg) = Registered
       /\ scenario.reg = <<"C", "A", "B">> => m_initializationOrder = <<"A", "B", "C">>

\* C23 as stated: with A, B and C active (C declaring B, B declaring A),
\* Unload(A) fails while B is active; after the calls Unload(B) and then
\* Unload(C), Unload(A) succeeds.
C23_UnloadAfterBThenC ==
    m_dependencies = ChainDependencies =>
        /\ scenario.unl = <<"A">> => (~lastCall.ret /\ "A" \in m_activeSystems)
        /\ scenario.unl = <<"B", "C", "A">> => (lastCall.ret /\ "A" \notin m_activeSystems)

\* C23, amended: with A, B and C active, Unload(A) fails while B is active
\* and Unload(B) fails while C is active; after the calls Unload(C) and then
\* Unload(B), Unload(A) succeeds, and nothing is active any more.
C23_UnloadInReverseOrder ==
    m_dependencies = ChainDependencies =>
        /\ scenario.unl = <<"A">> => (~lastCall.ret /\ m_activeSystems = Modules)
        /\ scenario.unl = <<"B">> => (~lastCall.ret /\ m_activeSystems = Modules)
        /\ scenario.unl = <<"C">> => (lastCall.ret /\ m_activeSystems = {"A", "B"})
        /\ scenario.unl = <<"C", "B">> => (lastCall.ret /\ m_activeSystems = {"A"})
        /\ scenario.unl = <<"C", "B", "A">> => (lastCall.ret /\ m_activeSystems = {})
        /\ scenario.unl = <<"B", "C", "A">> => (~lastCall.ret /\ m_activeSystems = {"A", "B"})

\* Unload(C), Unload(B), Unload(A) have been called from the state with all
\* three active, and the last has returned true.
C23_Witness ==
    /\ m_dependencies = ChainDependencies
    /\ scenario.unl = <<"C", "B", "A">>
    /\ lastCall = [op |-> "Unload", name |-> "A", ret |-> TRUE]
    /\ m_activeSystems = {}
    /\ Registered = Modules

RECURSIVE ClosureWithin(_, _, _)
\* The names reached from S along declared dependencies without leaving names.
ClosureWithin(S, names, k) ==
    IF k = 0 THEN S
    ELSE ClosureWithin(S \cup (names \cap UNION {m_dependencies[m] : m \in S}), names, k - 1)

\* Storing T closes a dependency cycle among the registered systems.
CompletesCycle(T) ==
    LET names == Registered \cup {T}
    IN  T \in ClosureWithin(m_dependencies[T] \cap names, names, Cardinality(Modules))

\* C26: a Register call of a new system that closes a dependency cycle among
\* the registered systems returns true and leaves the system stored, with a
\* real module under its name; only the order is not computed.
C26_CyclicRegisterSucceeds ==
    [][(/\ lastCall'.op = "Register"
        /\ lastCall'.name \notin Registered
        /\ CompletesCycle(lastCall'.name))
       => /\ lastCall'.ret
          /\ ~crashed'
          /\ lastCall'.name \in Registered'
          /\ m_registeredSystems'[lastCall'.name]
          /\ m_initializationOrder' = <<>>]_vars

\* C27: a Register call makes no Initialize call (no lifecycle call at all)
\* and leaves the active set as it was; a system that is registered and not
\* active gets no Update call from a Tick and is not returned by a Get.
C27_RegisterDoesNotInitialize ==
    [][/\ lastCall'.op = "Register"
          => (m_activeSystems' = m_activeSystems /\ calls' = <<>>)
       /\ lastCall'.op = "Tick"
          => (\A i \in 1..Len(calls') : calls'[i].sys \notin Registered \ m_activeSystems)
       /\ (lastCall'.op \in {"Get", "GetByName"} /\ lastCall'.ret)
          => lastCall'.name \notin Registered \ m_activeSystems]_vars

\* A system has just been registered while another is active; it is stored
\* and not active.
C27_Witness ==
    /\ lastCall.op = "Register" /\ lastCall.ret
    /\ lastCall.name \in Registered \ m_activeSystems
    /\ m_activeSystems # {}
    /\ calls = <<>>

\* Call k starts with this step / returns to its caller with this step.
Starts(k) == k \notin DOMAIN busCalls /\ k \in DOMAIN busCalls'
Returns(k) == k \in DOMAIN busCalls /\ busCalls[k].status = "running"
                  /\ busCalls'[k].status # "running"

\* C28: a ProcessEvents call that finds the pending queue empty has an empty
\* batch and invokes no handler, whatever is subscribed; its steps, from the
\* call to the return, leave the queue and both bucket maps as they are.
C28_EmptyQueueInvokesNothing ==
    [][\A k \in DOMAIN busCalls' : busCalls'[k].op = "ProcessEvents" =>
          /\ (Starts(k) /\ m_eventQueue = {}) => busCalls'[k].batch = <<>>
          /\ busCalls'[k].batch = <<>> =>
                /\ busCalls'[k].trace = <<>>
                /\ busCalls'[k].status \in {"running", "returned"}
                /\ (Starts(k) \/ Returns(k)) =>
                      /\ m_eventQueue' = m_eventQueue
                      /\ m_handlers' = m_handlers
                      /\ m_filteredHandlers' = m_filteredHandlers]_vars

\* A ProcessEvents call that found nothing pending has returned, with a
\* global and a filtered handler subscribed before it started and an event
\* delivered by an earlier call.
C28_Witness ==
    \E k \in ProcessEventsCalls :
        /\ busCalls[k].batch = <<>>
        /\ busCalls[k].status = "returned"
        /\ busCalls[k].trace = <<>>
        /\ m_handlers["E1"] # <<>>
        /\ m_filteredHandlers["E1"]["f"] # <<>>
        /\ events # <<>>
        /\ k > 1

\* C30: on LinenFlax, after a RegisterSystem call that returned true with an
\* acyclic graph whose declared dependencies are all registered, the order
\* holds every registered system exactly once and nothing else, each system
\* after every system it depends on.
C30_FlaxOrderRebuilt ==
    (/\ variant = "LinenFlax"
     /\ lastCall.op = "Register" /\ lastCall.ret
     /\ DependenciesRegistered
     /\ ~Cyclic(Registered))
    => IsDependencyOrder(m_initializationOrder, Registered)

\* The third system of a dependency chain has been registered on LinenFlax
\* and the order holds all three, dependencies first.
C30_Witness ==
    /\ variant = "LinenFlax"
    /\ lastCall.op = "Register" /\ lastCall.ret
    /\ Registered = Modules
    /\ \E a, b, c \in Modules :
          /\ m_dependencies[a] = {} /\ m_dependencies[b] = {a} /\ m_dependencies[c] = {a, b}
          /\ m_initializationOrder = <<a, b, c>>
          /\ lastCall.name = c

\* C24: no step changes a bucket of the subscriber table while a thread is
\* inside a delivery loop over that bucket: a Subscribe and the handler
\* loops of ProcessEvents and PublishImmediate never work on a bucket at the
\* same time, and the process never gets into an undefined state over it.
C24_TableAccessSerialized ==
    [][/\ \A ty \in EventTypes, f \in Filters :
             Bucket(ty, f)' # Bucket(ty, f) => ~Iterated(ty, f)
       /\ ~crashed']_vars

\* C25: Tick reads the initialization order and the active systems only
\* while no thread is inside a registry operation that holds m_systemsMutex
\* (no Tick falls between the steps of another thread's Register, Load,
\* Unload or teardown), and the process never gets into an undefined state
\* over it.
C25_TickOutsideRegistryCalls ==
    [][(\E t \in Threads : Idle(t) /\ Update)
          => (m_systemsMutex = NoThread /\ ~crashed')]_vars

\* C29: with ProcessEvents called again and again, every event Publish has
\* queued while a ProcessEvents call is still to come is in the end
\* delivered: some ProcessEvents call enters its handler loops for it.
C29_QueuedEventuallyDelivered ==
    \A e \in 1..MaxEvents :
        (e \in m_eventQueue /\ Len(busCalls) < MaxCalls)
            ~> (\E k \in ProcessEventsCalls : Reached(k, e))

----------------------------------------------------------------------------
(* Registry and bus claims, last part.                                     *)

\* C31: a Load or Unload call, whatever it returns, leaves the
\* initialization order and the registered systems (and the type index) as
\* they were; a step that changes the order is a Register or a teardown.
C31_LoadUnloadKeepOrder ==
    [][/\ lastCall'.op \in {"Load", "Unload"}
          => /\ m_initializationOrder' = m_initializationOrder
             /\ m_registeredSystems' = m_registeredSystems
             /\ m_typeToName' = m_typeToName
       /\ m_initializationOrder' # m_initializationOrder
          => lastCall'.op \in {"Register", "Deinitialize"}]_vars

\* An Unload has just shut a system down while the order holds it and
\* another system.
C31_Witness ==
    /\ lastCall.op = "Unload" /\ lastCall.ret
    /\ calls = <<Call("Shutdown", lastCall.name)>>
    /\ Len(m_initializationOrder) > 1
    /\ \E i \in 1..Len(m_initializationOrder) : m_initializationOrder[i] = lastCall.name
    /\ m_activeSystems # {}

\* C32: a queued event has the priority its Publish call was given as
\* argument, whatever priority the publisher had set on the event object,
\* and the events of a ProcessEvents batch are in the order of those
\* arguments, highest first; the publisher's object keeps the priority the
\* publisher set.
C32_PriorityIsTheArgument ==
    /\ \A e \in EventIds : events[e].queued =>
          /\ events[e].priority = publishedAs[e].priority
          /\ publishedAs[e].object = publishedAs[e].own
    /\ \A k \in ProcessEventsCalls : \A i, j \in 1..Len(busCalls[k].batch) :
          i < j => publishedAs[busCalls[k].batch[i]].priority
                      >= publishedAs[busCalls[k].batch[j]].priority

\* An event object set to Critical and published with the default priority
\* has been delivered as Normal, after an event published later as Critical.
C32_Witness ==
    \E k \in ProcessEventsCalls :
        /\ busCalls[k].batch = <<2, 1>>
        /\ busCalls[k].status = "returned"
        /\ publishedAs[1].own = Critical /\ publishedAs[1].priority = Normal
        /\ events[1].priority = Normal
        /\ publishedAs[2].own = Low /\ publishedAs[2].priority = Critical
        /\ \E h \in Handlers : TraceCount(k, 1, h) = 1

\* C33: on LinenPlugin, in every state Register, Load and Unload lead to,
\* every declared dependency of every active system is active.
C33_ActiveSetClosed ==
    variant = "LinenPlugin" =>
        \A n \in m_activeSystems : m_dependencies[n] \subseteq m_activeSystems

\* C34: on LinenPlugin, in every reachable state, every active system is in
\* the initialization order, also after a Register that introduced a cycle.
C34_ActiveInOrder ==
    variant = "LinenPlugin" =>
        \A n \in m_activeSystems :
            \E i \in 1..Len(m_initializationOrder) : m_initializationOrder[i] = n

RECURSIVE Alternates(_, _)
\* The lifecycle calls cs, made one after the other from a state in which the
\* systems of cur are the initialized ones, call Initialize only on a system
\* that is not initialized and Shutdown only on one that is.
Alternates(cs, cur) ==
    IF cs = <<>> THEN TRUE
    ELSE IF Head(cs).f = "Initialize"
    THEN Head(cs).sys \notin cur /\ Alternates(Tail(cs), cur \cup {Head(cs).sys})
    ELSE IF Head(cs).f = "Shutdown"
    THEN Head(cs).sys \in cur /\ Alternates(Tail(cs), cur \ {Head(cs).sys})
    ELSE Alternates(Tail(cs), cur)

RECURSIVE InitializedAfter(_, _)
\* The initialized systems after the calls cs.
InitializedAfter(cs, cur) ==
    IF cs = <<>> THEN cur
    ELSE IF Head(cs).f = "Initialize" THEN InitializedAfter(Tail(cs), cur \cup {Head(cs).sys})
    ELSE IF Head(cs).f = "Shutdown" THEN InitializedAfter(Tail(cs), cur \ {Head(cs).sys})
    ELSE InitializedAfter(Tail(cs), cur)

\* C35: the active systems are the ones whose last lifecycle call was
\* Initialize, and every registry operation keeps it so: none of its calls
\* is an Initialize on a system that is initialized already or a Shutdown on
\* one that is not, so that Initialize and Shutdown alternate on each system,
\* Initialize first.  (A teardown destroys the systems it deactivates.)
C35_InitializeShutdownAlternate ==
    [][/\ Alternates(calls', m_activeSystems)
       /\ lastCall'.op # "Deinitialize"
             => InitializedAfter(calls', m_activeSystems) = m_activeSystems']_vars

\* C36: the keys of the registered-system map are names a Register call has
\* stored, each mapped to a real system: the order recomputation adds no
\* entry, and it never looks up and dereferences a system that is not
\* registered.
C36_NoLookupOfUnregistered ==
    /\ ~crashed
    /\ \A n \in DOMAIN m_registeredSystems :
          m_registeredSystems[n] /\ n \in m_typeToName

----------------------------------------------------------------------------
(* Routing: one thread subscribing to, publishing and delivering events of *)
(* every type and filter.                                                  *)

NextRoute ==
    \/ \E h \in Handlers, ty \in EventTypes, f \in Filters : Subscribe(TickThread, h, ty, f)
    \/ \E ty \in EventTypes, f \in Filters : Publish(TickThread, ty, f, Normal)
    \/ \E ty \in EventTypes, f \in Filters : PublishImmediate(TickThread, ty, f)
    \/ ProcessEvents(TickThread)
    \/ InvokeHandler(TickThread)
    \/ FinishEvent(TickThread)
    \/ ReturnFromDelivery(TickThread)
    \/ HandlerReturn(TickThread)
    \/ HandlerThrow(TickThread)

SpecRoute == InitBus /\ [][NextRoute]_vars

\* Handler h was subscribed to the type event e was published with, either
\* without a filter or with the filter e was published with.
RoutedTo(h, e) ==
    /\ subscribedAs[h].type = publishedAs[e].type
    /\ subscribedAs[h].filter \in {"", publishedAs[e].filter}

\* C37: a ProcessEvents or PublishImmediate call invokes a handler at most
\* once for an event, and only a handler subscribed to the event's type
\* without a filter or with the filter the event was published with; when the
\* call is through with the event (it has delivered it), it has invoked every
\* such handler that was subscribed when the call began, once.
C37_RoutingExact ==
    \A k \in CallIds : \A e \in Range(busCalls[k].batch) : \A h \in Handlers :
        /\ TraceCount(k, e, h) <= 1
        /\ TraceCount(k, e, h) = 1 => RoutedTo(h, e)
        /\ (TraceCount(k, e, "done") = 1 /\ h \in busCalls[k].known /\ RoutedTo(h, e))
              => TraceCount(k, e, h) = 1

\* A call is through with an event published with filter "f": it has invoked
\* a handler subscribed to the type without a filter and has passed over a
\* handler subscribed with another filter or to another type.
C37_Witness ==
    \E k \in CallIds : \E e \in Range(busCalls[k].batch) : \E h, g \in Handlers :
        /\ TraceCount(k, e, "done") = 1
        /\ publishedAs[e].filter = "f"
        /\ {h, g} \subseteq busCalls[k].known
        /\ subscribedAs[h] = [type |-> publishedAs[e].type, filter |-> ""]
        /\ \/ subscribedAs[g] = [type |-> publishedAs[e].type, filter |-> "g"]
           \/ subscribedAs[g].type \notin {"", publishedAs[e].type}
        /\ HandlersOf(k, e) = <<h>>

----------------------------------------------------------------------------
(* A system whose Initialize subscribes a handler, as                      *)
(* CharacterProgressionSystem's does, loaded and unloaded by the thread    *)
(* that publishes and drains.  No one else subscribes: every handler of   *)
(* the bus is one this system's Initialize has subscribed.                 *)

Subscriber == "A"

NextSubscriber ==
    \/ Idle(TickThread) /\ RegisterSystem(Subscriber)
    \/ Handlers \ Subscribed # {} /\ LoadSystemEnter(TickThread, Subscriber)
    \/ LoadSystemStep(TickThread)
    \/ InitializeCallsSubscribe(TickThread)
    \/ \E h \in Handlers, ty \in BusTypes : InitializeSubscribes(TickThread, h, ty)
    \/ InInitialize(TickThread) /\ Top(TickThread).pc = "subscribed"
          /\ InitializeReturns(TickThread)
    \/ LoadSystemReturns(TickThread)
    \/ Idle(TickThread) /\ UnloadSystem(Subscriber)
    \/ \E ty \in BusTypes : Publish(TickThread, ty, "", Normal)
    \/ ProcessEvents(TickThread)
    \/ InvokeHandler(TickThread)
    \/ FinishEvent(TickThread)
    \/ ReturnFromDelivery(TickThread)
    \/ HandlerReturn(TickThread)

SpecSubscriber == InitBus /\ [][NextSubscriber]_vars

\* How often call k has invoked the system's handler for event e.
Invocations(k, e) == Len(HandlersOf(k, e))

\* C38: the bus invokes the handler a system subscribes in its Initialize
\* only while the system is active and at most once for an event, and a
\* ProcessEvents call that is through with an event while the system is
\* active has invoked the handler once for it, whatever Load and Unload
\* calls came before.
C38_HandlerFollowsActivation ==
    [][\A k \in DOMAIN busCalls : \A e \in Range(busCalls[k].batch) :
          /\ Invocations(k, e)' > Invocations(k, e)
                => Subscriber \in m_activeSystems /\ Invocations(k, e)' = 1
          /\ (TraceCount(k, e, "done") = 0 /\ TraceCount(k, e, "done")' = 1
                 /\ Subscriber \in m_activeSystems)
                => Invocations(k, e)' = 1]_vars

----------------------------------------------------------------------------
(* CharacterProgressionSystem and QuestSystem in the registry, and the     *)
(* quest operations, on the thread that runs Update.                       *)

QuestModules == {CharacterProgressionSystem, QuestSystem}

InitQuest ==
    /\ BusInit
    /\ variant = "LinenPlugin"
    /\ m_dependencies = [n \in Modules |-> IF n = QuestSystem
                                            THEN {CharacterProgressionSystem} ELSE {}]
    /\ m_registeredSystems = <<>>
    /\ m_activeSystems = {}
    /\ m_typeToName = {}
    /\ m_initializationOrder = <<>>
    /\ crashed = FALSE
    /\ lastCall = [op |-> "none", name |-> "", ret |-> TRUE]
    /\ calls = <<>>
    /\ scenario = NoScenario

\* The registry brought up, and the quest operations.
NextQuest ==
    \/ \E T \in QuestModules : Idle(TickThread) /\ RegisterSystem(T)
    \/ \E T \in QuestModules : Handlers \ Subscribed # {} /\ LoadSystemEnter(TickThread, T)
    \/ LoadSystemStep(TickThread)
    \/ InInitialize(TickThread) /\ Top(TickThread).h = CharacterProgressionSystem
          /\ InitializeCallsSubscribe(TickThread)
    \/ \E h \in Handlers : InitializeSubscribes(TickThread, h, QuestCompletedEvent)
    \/ InInitialize(TickThread)
          /\ (Top(TickThread).h = CharacterProgressionSystem
                 => Top(TickThread).pc = "subscribed")
          /\ InitializeReturns(TickThread)
    \/ LoadSystemReturns(TickThread)
    \/ \E id \in QuestIds : AddQuest(TickThread, id)
    \/ \E id \in QuestIds, r \in Rewards : SetExperienceReward(TickThread, id, r)
    \/ \E id \in QuestIds, meets \in BOOLEAN : ActivateQuest(TickThread, id, meets)
    \/ \E id \in QuestIds : CompleteQuest(TickThread, id)
    \/ \E id \in QuestIds : FailQuest(TickThread, id)

SpecQuest == InitQuest /\ [][NextQuest]_vars

\* The quest the runs with Unload and with deliveries are about.
RewardQuests == {"q1"}

\* The two systems loaded and unloaded, the quest operations, and Update's
\* ProcessEvents with the handler CharacterProgressionSystem has subscribed.
NextReward ==
    \/ \E T \in QuestModules : Idle(TickThread) /\ RegisterSystem(T)
    \/ \E T \in QuestModules : Handlers \ Subscribed # {} /\ LoadSystemEnter(TickThread, T)
    \/ LoadSystemStep(TickThread)
    \/ InInitialize(TickThread) /\ Top(TickThread).h = CharacterProgressionSystem
          /\ InitializeCallsSubscribe(TickThread)
    \/ \E h \in Handlers : InitializeSubscribes(TickThread, h, QuestCompletedEvent)
    \/ InInitialize(TickThread)
          /\ (Top(TickThread).h = CharacterProgressionSystem
                 => Top(TickThread).pc = "subscribed")
          /\ InitializeReturns(TickThread)
    \/ LoadSystemReturns(TickThread)
    \/ \E T \in QuestModules : Idle(TickThread) /\ UnloadSystem(T)
    \/ \E id \in RewardQuests : AddQuest(TickThread, id)
    \/ \E id \in RewardQuests, r \in Rewards : SetExperienceReward(TickThread, id, r)
    \/ \E id \in RewardQuests, meets \in BOOLEAN : ActivateQuest(TickThread, id, meets)
    \/ \E id \in RewardQuests : CompleteQuest(TickThread, id)
    \/ \E id \in RewardQuests : FailQuest(TickThread, id)
    \/ ProcessEvents(TickThread)
    \/ InvokeHandler(TickThread)
    \/ FinishEvent(TickThread)
    \/ ReturnFromDelivery(TickThread)
    \/ HandleQuestCompleted(TickThread)

SpecReward == InitQuest /\ [][NextReward]_vars

\* The moves of a quest's state.
QuestMoves == {<<"Available", "Active">>, <<"Active", "Completed">>, <<"Active", "Failed">>}

\* The state ActivateQuest, CompleteQuest and FailQuest ask of the quest.
StateFor(op) == IF op = "ActivateQuest" THEN "Available" ELSE "Active"

\* C39: in every step a quest stays a quest and its state stays as it is or
\* moves Available -> Active, Active -> Completed or Active -> Failed;
\* ActivateQuest, CompleteQuest and FailQuest return NotFound for an unknown
\* quest and InvalidState for a quest in the wrong state, and a call that
\* returns one of the two leaves every quest as it is and queues no event.
C39_QuestStateMachine ==
    [][/\ \A id \in DOMAIN m_quests :
             /\ id \in DOMAIN m_quests'
             /\ \/ m_quests'[id].state = m_quests[id].state
                \/ <<m_quests[id].state, m_quests'[id].state>> \in QuestMoves
       /\ (questCall' # questCall
              /\ questCall'.op \in {"ActivateQuest", "CompleteQuest", "FailQuest"})
             => /\ questCall'.id \notin DOMAIN m_quests => questCall'.ret = "NotFound"
                /\ (questCall'.id \in DOMAIN m_quests
                       /\ m_quests[questCall'.id].state # StateFor(questCall'.op))
                      => questCall'.ret = "InvalidState"
       /\ (questCall' # questCall /\ questCall'.ret \in {"NotFound", "InvalidState"})
             => /\ m_quests' = m_quests
                /\ events' = events
                /\ m_eventQueue' = m_eventQueue]_vars

\* ActivateQuest has been refused with InvalidState on a quest that is
\* Completed, with the events of its activation and completion queued.
C39_Witness ==
    /\ questCall = [op |-> "ActivateQuest", id |-> "q1", ret |-> "InvalidState"]
    /\ m_quests["q1"].state = "Completed"
    /\ "q2" \in DOMAIN m_quests
    /\ Len(events) = 3

\* The step is a CompleteQuest that returns Success.
CompletesQuest == questCall' # questCall /\ questCall'.op = "CompleteQuest"
                     /\ questCall'.ret = "Success"

\* C40: a CompleteQuest that returns Success appends to the events one
\* QuestCompletedEvent carrying the quest's reward and after it one
\* QuestStateChangedEvent from Active to Completed, queues the two and leaves
\* the experience as it is; the experience changes only in a call of the
\* handler for a QuestCompletedEvent with a reward above zero, by that
\* reward; a ProcessEvents call takes all that is queued, and when it is
\* through with a QuestCompletedEvent it has called the handler for it once.
C40_RewardAddedOnce ==
    [][/\ CompletesQuest =>
             LET n == Len(events)
                 id == questCall'.id
             IN  /\ Len(events') = n + 2
                 /\ SubSeq(events', 1, n) = events
                 /\ events'[n + 1].type = QuestCompletedEvent
                 /\ events'[n + 1].questId = id
                 /\ events'[n + 1].experienceGained = m_quests[id].reward
                 /\ events'[n + 2].type = QuestStateChangedEvent
                 /\ events'[n + 2].questId = id
                 /\ events'[n + 2].oldState = "Active"
                 /\ events'[n + 2].newState = "Completed"
                 /\ m_eventQueue' = m_eventQueue \cup {n + 1, n + 2}
                 /\ m_experience' = m_experience
       /\ m_experience' # m_experience =>
             /\ InHandler(TickThread)
             /\ events[Top(TickThread).i].type = QuestCompletedEvent
             /\ events[Top(TickThread).i].experienceGained > 0
             /\ m_experience' = m_experience + events[Top(TickThread).i].experienceGained
       /\ Len(busCalls') > Len(busCalls) =>
             Range(busCalls'[Len(busCalls')].batch) = m_eventQueue
       /\ \A k \in DOMAIN busCalls : \A e \in Range(busCalls[k].batch) :
             (events[e].type = QuestCompletedEvent
                 /\ TraceCount(k, e, "done") = 0 /\ TraceCount(k, e, "done")' = 1)
                => Invocations(k, e)' = 1]_vars

====
